---- MODULE Spec2Model ----
(***************************************************************************)
(* Model of parascan's two-phase detection pipeline (handleScan) and of    *)
(* the detectors it runs: ServicesDetector, GitRepositoryDetector and the  *)
(* context-aware FilesDetector.                                            *)
(*                                                                         *)
(* A Go string is a sequence of one-character strings, so that Contains,   *)
(* ReplaceAll, TrimSuffix, glob matching and the manifest parsers are      *)
(* computed the way the code computes them.  A Go map[string]string is a   *)
(* function whose domain is a set of such strings.                         *)
(***************************************************************************)
EXTENDS Integers, Sequences, FiniteSets, TLC

---------------------------------------------------------------------------
(* Go's strings package, on sequences of characters.                       *)

\* strings.HasPrefix(s, p)
HasPrefix(s, p) ==
    /\ Len(p) <= Len(s)
    /\ SubSeq(s, 1, Len(p)) = p

\* strings.HasSuffix(s, p)
HasSuffix(s, p) ==
    /\ Len(p) <= Len(s)
    /\ SubSeq(s, Len(s) - Len(p) + 1, Len(s)) = p

\* strings.Contains(s, sub): sub occurs at some offset of s.
Contains(s, sub) ==
    \E i \in 0..(Len(s) - Len(sub)) : SubSeq(s, i + 1, i + Len(sub)) = sub

\* strings.TrimSuffix(s, p): s without one trailing p.
TrimSuffix(s, p) ==
    IF HasSuffix(s, p) THEN SubSeq(s, 1, Len(s) - Len(p)) ELSE s

\* strings.ReplaceAll(s, old, new) for a non-empty old: the occurrences are
\* found left to right and do not overlap; the replacement is not rescanned.
RECURSIVE ReplaceAll(_, _, _)
ReplaceAll(s, old, new) ==
    IF Len(s) < Len(old) THEN s
    ELSE IF HasPrefix(s, old)
         THEN new \o ReplaceAll(SubSeq(s, Len(old) + 1, Len(s)), old, new)
         ELSE <<s[1]>> \o ReplaceAll(Tail(s), old, new)

\* unicode.IsSpace on the characters the model uses.
IsSpace(c) == c \in {" ", "\t", "\n", "\r"}

\* strings.TrimLeft / TrimRight / Trim(s, cutset), cutset given as a set.
RECURSIVE TrimLeftSet(_, _)
TrimLeftSet(s, cut) ==
    IF s # <<>> /\ s[1] \in cut THEN TrimLeftSet(Tail(s), cut) ELSE s

RECURSIVE TrimRightSet(_, _)
TrimRightSet(s, cut) ==
    IF s # <<>> /\ s[Len(s)] \in cut
    THEN TrimRightSet(SubSeq(s, 1, Len(s) - 1), cut)
    ELSE s

TrimSet(s, cut) == TrimRightSet(TrimLeftSet(s, cut), cut)

\* strings.TrimSpace(s)
TrimSpace(s) == TrimSet(s, {" ", "\t", "\n", "\r"})

\* strings.FieldsFunc(s, f): the maximal runs of characters outside seps.
RECURSIVE FieldsSet(_, _)
FieldsSet(s, seps) ==
    LET t == TrimLeftSet(s, seps)
        n == IF \E i \in 1..Len(t) : t[i] \in seps
             THEN (CHOOSE i \in 1..Len(t) :
                      /\ t[i] \in seps
                      /\ \A j \in 1..(i - 1) : t[j] \notin seps) - 1
             ELSE Len(t)
    IN  IF t = <<>> THEN <<>>
        ELSE <<SubSeq(t, 1, n)>> \o FieldsSet(SubSeq(t, n + 1, Len(t)), seps)

\* strings.Fields(s): split around runs of white space.
Fields(s) == FieldsSet(s, {" ", "\t", "\n", "\r"})

\* strings.Split(s, sep) for a one-character sep: always at least one piece.
RECURSIVE SplitChar(_, _)
SplitChar(s, c) ==
    IF \E i \in 1..Len(s) : s[i] = c
    THEN LET i == CHOOSE i \in 1..Len(s) :
                      s[i] = c /\ \A j \in 1..(i - 1) : s[j] # c
         IN  <<SubSeq(s, 1, i - 1)>> \o SplitChar(SubSeq(s, i + 1, Len(s)), c)
    ELSE <<s>>

\* The elements of a sequence.
Range(s) == {s[i] : i \in 1..Len(s)}

\* All orders in which the keys of a Go map can be ranged over.
RECURSIVE Orders(_)
Orders(S) ==
    IF S = {} THEN {<<>>}
    ELSE UNION {{<<k>> \o o : o \in Orders(S \ {k})} : k \in S}

\* A map with no entry, and the entry k -> v.
EmptyMap == [k \in {} |-> <<>>]
Entry(k, v) == (k :> v)

\* for key, value := range src { dst[key] = value }
MergeInto(dst, src) == src @@ dst

---------------------------------------------------------------------------
(* path/filepath                                                           *)

\* filepath.Match(pattern, name) for patterns of literals, '?' and '*':
\* '*' and '?' never match the separator.
RECURSIVE Match(_, _)
Match(p, s) ==
    IF p = <<>> THEN s = <<>>
    ELSE IF p[1] = "*"
         THEN \/ Match(Tail(p), s)
              \/ s # <<>> /\ s[1] # "/" /\ Match(p, Tail(s))
         ELSE /\ s # <<>>
              /\ IF p[1] = "?" THEN s[1] # "/" ELSE s[1] = p[1]
              /\ Match(Tail(p), Tail(s))

\* filepath.Base(path): the last element of a relative path of the tree.
Base(path) == LET parts == SplitChar(path, "/") IN parts[Len(parts)]

---------------------------------------------------------------------------
(* The Manifest Catalog: the bundled data files, as loaded at start.       *)

\* data/stack-dependency-files.yml (StackDependencyFiles.Languages): for each
\* language, its package managers and their file patterns.
stackData ==
    (<<"r","u","b","y">> :> [PackageManagers |->
                    (<<"b","u","n","d","l","e","r">> :> [Files |-> <<<<"G","e","m","f","i","l","e">>, <<"*",".","g","e","m","s","p","e","c">>>>])])
    @@
    (<<"p","y","t","h","o","n">> :> [PackageManagers |->
                    (<<"p","i","p">> :> [Files |-> <<<<"r","e","q","u","i","r","e","m","e","n","t","s",".","t","x","t">>, <<"r","e","q","u","i","r","e","m","e","n","t","s","/","*",".","t","x","t">>>>])
                    @@ (<<"p","i","p","e","n","v">> :> [Files |-> <<<<"P","i","p","f","i","l","e">>>>])])
    @@
    (<<"n","o","d","e","j","s">> :> [PackageManagers |->
                    (<<"n","p","m">> :> [Files |-> <<<<"p","a","c","k","a","g","e",".","j","s","o","n">>>>])
                    @@ (<<"y","a","r","n">> :> [Files |-> <<<<"y","a","r","n",".","l","o","c","k">>>>])])

\* data/services/<id>.yml (ServiceData), keyed by file name without .yml.
servicesData ==
    (<<"s","t","r","i","p","e">> :> [Name |-> <<"S","t","r","i","p","e">>, URL |-> <<"h","t","t","p","s",":","/","/","d","a","s","h","b","o","a","r","d",".","s","t","r","i","p","e",".","c","o","m">>,
                   Stacks |-> (<<"r","u","b","y">> :> <<<<"s","t","r","i","p","e">>, <<"s","t","r","i","p","e","_","e","v","e","n","t">>>>)
                              @@ (<<"p","y","t","h","o","n">> :> <<<<"s","t","r","i","p","e">>>>)
                              @@ (<<"n","o","d","e","j","s">> :> <<<<"s","t","r","i","p","e">>, <<"@","s","t","r","i","p","e","/","s","t","r","i","p","e","-","j","s">>>>)])
    @@
    (<<"d","b","t">> :> [Name |-> <<"d","b","t">>, URL |-> <<"h","t","t","p","s",":","/","/","c","l","o","u","d",".","g","e","t","d","b","t",".","c","o","m">>,
                Stacks |-> (<<"p","y","t","h","o","n">> :> <<<<"d","b","t","-","c","o","r","e">>>>)])

\* data/file-detectors.yml (FileDetectors.Technologies), keyed by technology.
\* Two technologies tied to a hosting share the category "ci", two that are
\* tied to none share the category "review"; "dbt" is also a service name.
fileDetectorsData ==
    (<<"g","i","t","h","u","b","-","a","c","t","i","o","n","s">> :>
        [DisplayName |-> <<"G","i","t","H","u","b"," ","A","c","t","i","o","n","s">>, Category |-> <<"c","i">>,
         HostingMatch |-> <<"g","i","t","h","u","b",".","c","o","m">>, Files |-> <<<<".","g","i","t","h","u","b","/","w","o","r","k","f","l","o","w","s","/">>>>,
         URLTemplate |-> <<"{","r","e","p","o","}","/","a","c","t","i","o","n","s">>, FallbackURL |-> <<>>])
    @@
    (<<"g","i","t","l","a","b","-","c","i">> :>
        [DisplayName |-> <<"G","i","t","L","a","b"," ","C","I">>, Category |-> <<"c","i">>,
         HostingMatch |-> <<"g","i","t","l","a","b",".","c","o","m">>, Files |-> <<<<".","g","i","t","l","a","b","-","c","i",".","y","m","l">>>>,
         URLTemplate |-> <<"{","r","e","p","o","}","/","-","/","p","i","p","e","l","i","n","e","s">>,
         FallbackURL |-> <<"h","t","t","p","s",":","/","/","d","o","c","s",".","g","i","t","l","a","b",".","c","o","m","/","c","i">>])
    @@
    (<<"d","b","t">> :>
        [DisplayName |-> <<"d","b","t">>, Category |-> <<"d","a","t","a">>,
         HostingMatch |-> <<>>, Files |-> <<<<"d","b","t","_","p","r","o","j","e","c","t",".","y","m","l">>>>,
         URLTemplate |-> <<>>, FallbackURL |-> <<"h","t","t","p","s",":","/","/","d","o","c","s",".","g","e","t","d","b","t",".","c","o","m">>])
    @@
    (<<"c","o","d","e","o","w","n","e","r","s">> :>
        [DisplayName |-> <<"C","o","d","e"," ","o","w","n","e","r","s">>, Category |-> <<"r","e","v","i","e","w">>,
         HostingMatch |-> <<>>, Files |-> <<<<"C","O","D","E","O","W","N","E","R","S">>, <<"d","o","c","s","/","C","O","D","E","O","W","N","E","R","S">>>>,
         URLTemplate |-> <<"{","r","e","p","o","}","/","b","l","o","b","/","m","a","i","n","/","C","O","D","E","O","W","N","E","R","S">>, FallbackURL |-> <<>>])
    @@
    (<<"c","o","n","t","r","i","b","u","t","i","n","g">> :>
        [DisplayName |-> <<"C","o","n","t","r","i","b","u","t","i","n","g"," ","g","u","i","d","e">>, Category |-> <<"r","e","v","i","e","w">>,
         HostingMatch |-> <<>>, Files |-> <<<<"C","O","N","T","R","I","B","U","T","I","N","G",".","m","d">>>>,
         URLTemplate |-> <<"{","r","e","p","o","}","/","b","l","o","b","/","m","a","i","n","/","C","O","N","T","R","I","B","U","T","I","N","G",".","m","d">>,
         FallbackURL |-> <<"h","t","t","p","s",":","/","/","o","p","e","n","s","o","u","r","c","e",".","g","u","i","d","e">>])

---------------------------------------------------------------------------
(* The scanned project: the directory tree under project_root, the content *)
(* of its manifests, and the state of the version-control client.          *)

File(path, content) ==
    [path |-> path, isDir |-> FALSE, readable |-> TRUE, content |-> content]
Dir(path) == [path |-> path, isDir |-> TRUE, readable |-> FALSE, content |-> <<>>]

\* Gemfile variants (Scenario A's manifest, and one declaring no service).
GemfileChoices ==
    { {},
      {File(<<"G","e","m","f","i","l","e">>, <<"g","e","m"," ","'","s","t","r","i","p","e","'",","," ","'","~",">"," ","5",".","0","'","\n","g","e","m"," ","'","r","a","i","l","s","'","\n">>)},
      {File(<<"G","e","m","f","i","l","e">>, <<"g","e","m"," ","'","r","a","i","l","s","'","\n">>)} }

\* requirements.txt variants.
RequirementsChoices ==
    { {},
      {File(<<"r","e","q","u","i","r","e","m","e","n","t","s",".","t","x","t">>, <<"s","t","r","i","p","e","=","=","2",".","0","\n","d","b","t","-","c","o","r","e",">","=","1",".","0","\n">>)},
      {File(<<"r","e","q","u","i","r","e","m","e","n","t","s",".","t","x","t">>, <<"#"," ","s","t","r","i","p","e","\n","f","l","a","s","k","\n">>)} }

\* Files and directories the generic technologies look for.
WorkflowChoices ==
    { {},
      {Dir(<<".","g","i","t","h","u","b">>), Dir(<<".","g","i","t","h","u","b","/","w","o","r","k","f","l","o","w","s">>),
       File(<<".","g","i","t","h","u","b","/","w","o","r","k","f","l","o","w","s","/","c","i",".","y","m","l">>, <<"o","n",":"," ","p","u","s","h","\n">>)} }

GitlabCIChoices == { {}, {File(<<".","g","i","t","l","a","b","-","c","i",".","y","m","l">>, <<"s","t","a","g","e","s",":"," ","[","]","\n">>)} }

DbtChoices == { {}, {File(<<"d","b","t","_","p","r","o","j","e","c","t",".","y","m","l">>, <<"n","a","m","e",":"," ","x","\n">>)} }

ReviewChoices ==
    { {},
      {File(<<"C","O","D","E","O","W","N","E","R","S">>, <<"*"," ","@","o","\n">>)},
      {File(<<"C","O","D","E","O","W","N","E","R","S">>, <<"*"," ","@","o","\n">>), File(<<"C","O","N","T","R","I","B","U","T","I","N","G",".","m","d">>, <<"#"," ","H","o","w","\n">>)} }

\* The manifests of a project, and the files of its generic technologies.
ManifestChoices == {a \cup b : a \in GemfileChoices, b \in RequirementsChoices}

TechnologyFileChoices ==
    { c \cup d \cup e \cup f :
        c \in WorkflowChoices, d \in GitlabCIChoices, e \in DbtChoices, f \in ReviewChoices }

\* Manifests of the other formats, each with the package names it declares:
\* a package.json, a package.json cut short, a yarn.lock, a gemspec, a
\* requirements file in a subdirectory and a Pipfile (no parser of its own).
ManifestFixtures ==
    { [file |-> File(<<"G","e","m","f","i","l","e">>, <<"g","e","m"," ","'","s","t","r","i","p","e","'",","," ","'","~",">"," ","5",".","0","'","\n","g","e","m"," ","'","r","a","i","l","s","'","\n">>),
       declares |-> {<<"s","t","r","i","p","e">>, <<"r","a","i","l","s">>}],
      [file |-> File(<<"G","e","m","f","i","l","e">>, <<"g","e","m"," ","'","r","a","i","l","s","'","\n">>), declares |-> {<<"r","a","i","l","s">>}],
      [file |-> File(<<"r","e","q","u","i","r","e","m","e","n","t","s",".","t","x","t">>, <<"s","t","r","i","p","e","=","=","2",".","0","\n","d","b","t","-","c","o","r","e",">","=","1",".","0","\n">>),
       declares |-> {<<"s","t","r","i","p","e">>, <<"d","b","t","-","c","o","r","e">>}],
      [file |-> File(<<"r","e","q","u","i","r","e","m","e","n","t","s",".","t","x","t">>, <<"#"," ","s","t","r","i","p","e","\n","f","l","a","s","k","\n">>), declares |-> {<<"f","l","a","s","k">>}],
      [file |-> File(<<"p","a","c","k","a","g","e",".","j","s","o","n">>,
                     <<"{","\"","n","a","m","e","\"",":"," ","\"","s","h","o","p","\"",","," ","\"","d","e","p","e","n","d","e","n","c","i","e","s","\"",":"," ","{","\"","s","t","r","i","p","e","\"",":"," ","\"","^","8",".","0",".","0","\"","}",","," ","\"","d","e","v","D","e","p","e","n","d","e","n","c","i","e","s","\"",":"," ","{","\"","@","s","t","r","i","p","e","/","s","t","r","i","p","e","-","j","s","\"",":"," ","\"","1","\"","}","}","\n">>),
       declares |-> {<<"s","t","r","i","p","e">>, <<"@","s","t","r","i","p","e","/","s","t","r","i","p","e","-","j","s">>}],
      [file |-> File(<<"p","a","c","k","a","g","e",".","j","s","o","n">>, <<"{","\"","n","a","m","e","\"",":"," ","\"","s","t","r","i","p","e","\"",","," ">>), declares |-> {}],
      [file |-> File(<<"y","a","r","n",".","l","o","c","k">>,
                     <<"s","t","r","i","p","e","@","^","8",".","0",".","0",":","\n"," "," ","v","e","r","s","i","o","n"," ","\"","8",".","0",".","0","\"","\n","\"","@","s","t","r","i","p","e","/","s","t","r","i","p","e","-","j","s","@","^","1",".","0",".","0","\"",":","\n"," "," ","v","e","r","s","i","o","n"," ","\"","1",".","0",".","0","\"","\n">>),
       declares |-> {<<"s","t","r","i","p","e">>, <<"@","s","t","r","i","p","e","/","s","t","r","i","p","e","-","j","s">>}],
      [file |-> File(<<"s","h","o","p",".","g","e","m","s","p","e","c">>, <<" "," ","s",".","a","d","d","_","d","e","p","e","n","d","e","n","c","y"," ","'","s","t","r","i","p","e","_","e","v","e","n","t","'","\n">>),
       declares |-> {<<"s","t","r","i","p","e","_","e","v","e","n","t">>}],
      [file |-> File(<<"r","e","q","u","i","r","e","m","e","n","t","s","/","d","e","v",".","t","x","t">>, <<"s","t","r","i","p","e","\n">>), declares |-> {<<"s","t","r","i","p","e">>}],
      [file |-> File(<<"P","i","p","f","i","l","e">>, <<"[","p","a","c","k","a","g","e","s","]","\n","s","t","r","i","p","e"," ","="," ","\"","*","\"","\n","(","d","b","t","-","c","o","r","e",")",";","\n">>),
       declares |-> {<<"s","t","r","i","p","e">>, <<"d","b","t","-","c","o","r","e">>}],
      [file |-> File(<<"P","i","p","f","i","l","e">>, <<"[","p","a","c","k","a","g","e","s","]","\n","\"","s","t","r","i","p","e","-","m","o","c","k","\"",","," ","d","b","t","-","c","o","r","e","-","x","\n">>),
       declares |-> {<<"s","t","r","i","p","e","-","m","o","c","k">>, <<"d","b","t","-","c","o","r","e","-","x">>}] }

\* Projects around those manifests: one per manifest, a Ruby project whose
\* Gemfile and gemspec name different packages of one service, a project of
\* three languages that all use one service, a project whose only manifest
\* lies in a subdirectory no pattern reaches, and four irregular projects.
FormatTrees ==
    { {fx.file} : fx \in {f \in ManifestFixtures :
                             f.file.path \notin {<<"G","e","m","f","i","l","e">>, <<"r","e","q","u","i","r","e","m","e","n","t","s",".","t","x","t">>,
                                                 <<"r","e","q","u","i","r","e","m","e","n","t","s","/","d","e","v",".","t","x","t">>}} }
    \cup
    { {File(<<"G","e","m","f","i","l","e">>, <<"g","e","m"," ","'","s","t","r","i","p","e","'",","," ","'","~",">"," ","5",".","0","'","\n","g","e","m"," ","'","r","a","i","l","s","'","\n">>),
       File(<<"s","h","o","p",".","g","e","m","s","p","e","c">>, <<" "," ","s",".","a","d","d","_","d","e","p","e","n","d","e","n","c","y"," ","'","s","t","r","i","p","e","_","e","v","e","n","t","'","\n">>)},
      {File(<<"G","e","m","f","i","l","e">>, <<"g","e","m"," ","'","s","t","r","i","p","e","'",","," ","'","~",">"," ","5",".","0","'","\n","g","e","m"," ","'","r","a","i","l","s","'","\n">>),
       File(<<"s","h","o","p",".","g","e","m","s","p","e","c">>, <<" "," ","s",".","a","d","d","_","d","e","p","e","n","d","e","n","c","y"," ","'","s","t","r","i","p","e","_","e","v","e","n","t","'","\n">>),
       Dir(<<"r","e","q","u","i","r","e","m","e","n","t","s">>), File(<<"r","e","q","u","i","r","e","m","e","n","t","s","/","d","e","v",".","t","x","t">>, <<"s","t","r","i","p","e","\n">>),
       File(<<"y","a","r","n",".","l","o","c","k">>,
            <<"s","t","r","i","p","e","@","^","8",".","0",".","0",":","\n"," "," ","v","e","r","s","i","o","n"," ","\"","8",".","0",".","0","\"","\n","\"","@","s","t","r","i","p","e","/","s","t","r","i","p","e","-","j","s","@","^","1",".","0",".","0","\"",":","\n"," "," ","v","e","r","s","i","o","n"," ","\"","1",".","0",".","0","\"","\n">>)},
      {Dir(<<"v","e","n","d","o","r">>), File(<<"v","e","n","d","o","r","/","G","e","m","f","i","l","e">>, <<"g","e","m"," ","'","s","t","r","i","p","e","'",","," ","'","~",">"," ","5",".","0","'","\n","g","e","m"," ","'","r","a","i","l","s","'","\n">>)},
      \* a Gemfile that cannot be read, next to a gemspec that can
      {[path |-> <<"G","e","m","f","i","l","e">>, isDir |-> FALSE, readable |-> FALSE,
        content |-> <<"g","e","m"," ","'","s","t","r","i","p","e","'",","," ","'","~",">"," ","5",".","0","'","\n","g","e","m"," ","'","r","a","i","l","s","'","\n">>],
       File(<<"s","h","o","p",".","g","e","m","s","p","e","c">>, <<" "," ","s",".","a","d","d","_","d","e","p","e","n","d","e","n","c","y"," ","'","s","t","r","i","p","e","_","e","v","e","n","t","'","\n">>)},
      \* a requirements.txt with a tab between the name and the version
      {File(<<"r","e","q","u","i","r","e","m","e","n","t","s",".","t","x","t">>, <<"s","t","r","i","p","e","\t",">","=","2",".","0","\n","d","b","t","-","c","o","r","e"," ",">","=","1",".","0","\n">>)},
      \* a package.json that is valid JSON but whose dependencies are a list
      {File(<<"p","a","c","k","a","g","e",".","j","s","o","n">>, <<"{","\"","d","e","p","e","n","d","e","n","c","i","e","s","\"",":"," ","[","\"","s","t","r","i","p","e","\"","]","}","\n">>)},
      \* a regular file where a technology expects a directory
      {Dir(<<".","g","i","t","h","u","b">>), File(<<".","g","i","t","h","u","b","/","w","o","r","k","f","l","o","w","s">>, <<>>)} }

\* Every project tree of the model: every combination of manifests with and
\* without a dbt project, every combination of technology files with and
\* without a requirements.txt that names two services, and the projects
\* around the other manifest formats.
Trees ==
    { m \cup t : m \in ManifestChoices, t \in DbtChoices }
    \cup
    { m \cup t : m \in { {}, {File(<<"r","e","q","u","i","r","e","m","e","n","t","s",".","t","x","t">>, <<"s","t","r","i","p","e","=","=","2",".","0","\n","d","b","t","-","c","o","r","e",">","=","1",".","0","\n">>)} },
                 t \in TechnologyFileChoices }
    \cup FormatTrees

\* Remote origins a repository can be configured with.
OriginList ==
    << <<"g","i","t","@","g","i","t","h","u","b",".","c","o","m",":","o","r","g","/","r","e","p","o",".","g","i","t">>,
       <<"h","t","t","p","s",":","/","/","g","i","t","l","a","b",".","c","o","m","/","o","r","g","/","r","e","p","o",".","g","i","t">>,
       <<"s","s","h",":","/","/","g","i","t","@","b","i","t","b","u","c","k","e","t",".","o","r","g","/","o","r","g","/","r","e","p","o",".","g","i","t">>,
       <<"h","t","t","p","s",":","/","/","u","s","e","r",":","t","o","k","e","n","@","g","i","t","h","u","b",".","c","o","m","/","o","r","g","/","r","e","p","o",".","g","i","t">>,
       <<"g","i","t","@","g","i","t","l","a","b",".","c","o","m",":","o","r","g","/","r","e","p","o">>,
       <<"d","e","p","l","o","y","@","g","i","t","h","u","b",".","c","o","m",":","o","r","g","/","r","e","p","o",".","g","i","t">>,
       <<"h","t","t","p",":","/","/","g","i","t","h","u","b",".","c","o","m","/","o","r","g","/","r","e","p","o">>,
       <<"h","t","t","p","s",":","/","/","g","i","t","h","u","b",".","c","o","m","/","o","r","g","/","r","e","p","o">> >>

\* How many of the origins of OriginList the model draws from.
NumOrigins == 7

Origins == {OriginList[i] : i \in 1..(IF NumOrigins < Len(OriginList)
                                      THEN NumOrigins ELSE Len(OriginList))}

\* What the git client answers in the working directory: not a repository,
\* a repository without an origin remote, or a repository with one.
GitStates ==
    {[isRepo |-> FALSE, hasOrigin |-> FALSE, origin |-> <<>>],
     [isRepo |-> TRUE, hasOrigin |-> FALSE, origin |-> <<>>]}
    \cup {[isRepo |-> TRUE, hasOrigin |-> TRUE, origin |-> o] : o \in Origins}

---------------------------------------------------------------------------
(* File-system primitives over a project tree (a set of File and Dir).     *)

\* filepath.Glob(filepath.Join(dir, pattern)): the entries of the tree whose
\* path matches the pattern. Join cleans the path: a trailing slash is dropped.
Glob(tree, pattern) == {e \in tree : Match(TrimSuffix(pattern, <<"/">>), e.path)}

\* os.Stat(filepath.Join(dir, name)) succeeds: some entry has that path.
StatOK(tree, name) == \E e \in tree : e.path = name

\* os.Stat(...) succeeds and info.IsDir().
StatIsDir(tree, name) == \E e \in tree : e.path = name /\ e.isDir

---------------------------------------------------------------------------
(* detectors.FilesDetector: technologies recognised by file presence.      *)

\* FilesDetector.hasMatchingFile(dir, pattern)
FilesDetector_hasMatchingFile(tree, pattern) ==
    IF HasSuffix(pattern, <<"/">>)
    THEN StatIsDir(tree, TrimSuffix(pattern, <<"/">>))
    ELSE IF Contains(pattern, <<"/">>)
         THEN Glob(tree, pattern) # {}
         ELSE IF Contains(pattern, <<"*">>)
              THEN Glob(tree, pattern) # {}
              ELSE StatOK(tree, pattern)

\* FilesDetector.hasMatchingFiles(projectPath, patterns)
FilesDetector_hasMatchingFiles(tree, patterns) ==
    \E i \in 1..Len(patterns) : FilesDetector_hasMatchingFile(tree, patterns[i])

\* A variant of buildURL that never compares hosting_match with the
\* repository: the sensitivity test of the three-case rule.
buildURLIgnoringHosting(config, technology, contextResults) ==
    IF <<"r","e","p","o">> \in DOMAIN contextResults /\ config.URLTemplate # <<>>
    THEN ReplaceAll(config.URLTemplate, <<"{","r","e","p","o","}">>, contextResults[<<"r","e","p","o">>])
    ELSE IF config.FallbackURL # <<>> THEN config.FallbackURL ELSE technology

\* A variant of buildURL that fills the template whether or not "repo" is
\* published (an absent key reads as the empty string): the sensitivity
\* test of the rule for a project without a repository URL.
buildURLWithoutRepoCheck(config, technology, contextResults) ==
    IF config.URLTemplate # <<>>
    THEN ReplaceAll(config.URLTemplate, <<"{","r","e","p","o","}">>,
                    IF <<"r","e","p","o">> \in DOMAIN contextResults
                    THEN contextResults[<<"r","e","p","o">>] ELSE <<>>)
    ELSE IF config.FallbackURL # <<>> THEN config.FallbackURL ELSE technology

\* FilesDetector.buildURL(config, technology, contextResults)
buildURL(config, technology, contextResults) ==
    LET hasRepo == <<"r","e","p","o">> \in DOMAIN contextResults
        repoURL == IF hasRepo THEN contextResults[<<"r","e","p","o">>] ELSE <<>>
    IN  IF hasRepo /\ config.URLTemplate # <<>>
        THEN IF config.HostingMatch # <<>> /\ ~Contains(repoURL, config.HostingMatch)
             THEN IF config.FallbackURL # <<>> THEN config.FallbackURL ELSE technology
             ELSE ReplaceAll(config.URLTemplate, <<"{","r","e","p","o","}">>, repoURL)
        ELSE IF config.FallbackURL # <<>> THEN config.FallbackURL ELSE technology

\* A variant of the loop body that keys the entry by the category of the
\* technology: the sensitivity test of the determinism of Detect.
FilesDetector_DetectOneByCategory(results, techKey, data, tree, contextResults) ==
    IF FilesDetector_hasMatchingFiles(tree, data[techKey].Files)
    THEN MergeInto(results, Entry(data[techKey].Category,
                                  buildURL(data[techKey], techKey, contextResults)))
    ELSE results

\* One iteration of the loop of FilesDetector.Detect over the technologies.
FilesDetector_DetectOne(results, techKey, data, tree, contextResults) ==
    IF FilesDetector_hasMatchingFiles(tree, data[techKey].Files)
    THEN MergeInto(results, Entry(techKey, buildURL(data[techKey], techKey, contextResults)))
    ELSE results

\* FilesDetector.Detect(ctx), the technologies ranged over in the given order
\* (Go leaves the order of a map range unspecified).  It never fails.
RECURSIVE FilesDetector_DetectFrom(_, _, _, _, _)
FilesDetector_DetectFrom(results, order, data, tree, contextResults) ==
    IF order = <<>> THEN results
    ELSE FilesDetector_DetectFrom(
             FilesDetector_DetectOne(results, Head(order), data, tree, contextResults),
             Tail(order), data, tree, contextResults)

FilesDetector_Detect(order, data, tree, contextResults) ==
    [results |-> FilesDetector_DetectFrom(EmptyMap, order, data, tree, contextResults),
     err |-> FALSE]

---------------------------------------------------------------------------
(* detectors.GitRepositoryDetector                                         *)

\* The index of the first ':' of s, or 0.
FirstColon(s) ==
    IF \E i \in 1..Len(s) : s[i] = ":"
    THEN CHOOSE i \in 1..Len(s) : s[i] = ":" /\ \A j \in 1..(i - 1) : s[j] # ":"
    ELSE 0

\* regexp ^git@([^:]+):(.+)$ : the two groups, or <<>> when there is no match.
\* ([^:]+ ends at the first ':'; both groups are non-empty.)
MatchSSH(gitURL) ==
    LET c == FirstColon(gitURL)
    IN  IF HasPrefix(gitURL, <<"g","i","t","@">>) /\ c > 5 /\ c < Len(gitURL)
        THEN <<SubSeq(gitURL, 5, c - 1), SubSeq(gitURL, c + 1, Len(gitURL))>>
        ELSE <<>>

\* regexp ^git@([^:]+):(.+)\.git$
MatchSSHDotGit(gitURL) ==
    LET m == MatchSSH(gitURL)
    IN  IF m # <<>> /\ HasSuffix(m[2], <<".","g","i","t">>) /\ Len(m[2]) > 4
        THEN <<m[1], SubSeq(m[2], 1, Len(m[2]) - 4)>>
        ELSE <<>>

\* convertToHTTPSURL(gitURL)
convertToHTTPSURL(gitURL) ==
    IF MatchSSHDotGit(gitURL) # <<>>
    THEN <<"h","t","t","p","s",":","/","/">> \o MatchSSHDotGit(gitURL)[1] \o <<"/">> \o MatchSSHDotGit(gitURL)[2]
    ELSE IF MatchSSH(gitURL) # <<>>
         THEN <<"h","t","t","p","s",":","/","/">> \o MatchSSH(gitURL)[1] \o <<"/">> \o MatchSSH(gitURL)[2]
         ELSE IF HasPrefix(gitURL, <<"h","t","t","p",":","/","/">>) \/ HasPrefix(gitURL, <<"h","t","t","p","s",":","/","/">>)
              THEN TrimSuffix(gitURL, <<".","g","i","t">>)
              ELSE gitURL

\* isGitRepository(): `git rev-parse --git-dir` exits with 0.
isGitRepository(git) == git.isRepo

\* getGitOriginURL(): the trimmed output of `git remote get-url origin`, which
\* prints the URL and a line break; the command fails without an origin.
getGitOriginURL(git) ==
    IF git.hasOrigin
    THEN [url |-> TrimSpace(git.origin \o <<"\n">>), err |-> FALSE]
    ELSE [url |-> <<>>, err |-> TRUE]

\* GitRepositoryDetector.Detect(projectPath)
GitRepositoryDetector_Detect(git) ==
    IF ~isGitRepository(git)
    THEN [results |-> EmptyMap, err |-> FALSE]
    ELSE IF getGitOriginURL(git).err
         THEN [results |-> EmptyMap, err |-> TRUE]
         ELSE IF getGitOriginURL(git).url # <<>>
              THEN [results |-> Entry(<<"r","e","p","o">>, convertToHTTPSURL(getGitOriginURL(git).url)),
                    err |-> FALSE]
              ELSE [results |-> EmptyMap, err |-> FALSE]

---------------------------------------------------------------------------
(* Manifest parsers (package main).                                        *)

\* strings.Split(content, "\n")
Lines(content) == SplitChar(content, "\n")

\* 'name' or "name" occurs in the line.
ContainsQuoted(line, packageName) ==
    \/ Contains(line, <<"'">> \o packageName \o <<"'">>)
    \/ Contains(line, <<"\"">> \o packageName \o <<"\"">>)

\* isPackageInGemfile(content, packageName)
isPackageInGemfile(content, packageName) ==
    \E i \in 1..Len(Lines(content)) :
        LET line == TrimSpace(Lines(content)[i])
        IN  HasPrefix(line, <<"g","e","m"," ">>) /\ ContainsQuoted(line, packageName)

\* isPackageInRequirements(content, packageName)
isPackageInRequirements(content, packageName) ==
    \E i \in 1..Len(Lines(content)) :
        LET line == TrimSpace(Lines(content)[i])
            parts == FieldsSet(line, {"=", ">", "<", "!", " ", "~"})
        IN  /\ ~(line = <<>> \/ HasPrefix(line, <<"#">>))
            /\ Len(parts) > 0
            /\ parts[1] = packageName

\* isPackageInYarnLock(content, packageName)
isPackageInYarnLock(content, packageName) ==
    \E i \in 1..Len(Lines(content)) :
        LET line == TrimSpace(Lines(content)[i])
            parts == SplitChar(line, "@")
        IN  /\ Contains(line, <<"@">>)
            /\ HasSuffix(line, <<":">>)
            /\ Len(parts) > 0
            /\ TrimSet(parts[1], {"\"", "'"}) = packageName

\* isPackageInGemspec(content, packageName)
isPackageInGemspec(content, packageName) ==
    \E i \in 1..Len(Lines(content)) :
        LET line == TrimSpace(Lines(content)[i])
        IN  /\ \/ Contains(line, <<"a","d","d","_","d","e","p","e","n","d","e","n","c","y">>)
               \/ Contains(line, <<"a","d","d","_","d","e","v","e","l","o","p","m","e","n","t","_","d","e","p","e","n","d","e","n","c","y">>)
            /\ ContainsQuoted(line, packageName)

\* The search gone wrong: the package name anywhere in the content.
isPackageInGenericFileBySubstring(content, packageName) ==
    Contains(content, packageName)

\* isPackageInGenericFile(content, packageName)
isPackageInGenericFile(content, packageName) ==
    \E i \in 1..Len(Lines(content)) :
        LET words == Fields(Lines(content)[i])
        IN  \E w \in 1..Len(words) :
                TrimSet(words[w], {"\"", "'", ",", ":", ";", "(", ")", "[", "]", "{", "}"})
                    = packageName

---------------------------------------------------------------------------
(* encoding/json, for the documents a package.json can hold: objects,       *)
(* arrays, strings without escape sequences, integers, true, false, null.   *)

JSONSpace == {" ", "\t", "\n", "\r"}
JSONDigit == {"0", "1", "2", "3", "4", "5", "6", "7", "8", "9"}

\* A parsed value: t is its kind; s the text of a string; members the
\* <<key, value>> pairs of an object, in document order.
JSONValue(t, s, members) == [t |-> t, s |-> s, members |-> members]
JSONFail == [ok |-> FALSE, rest |-> <<>>, v |-> JSONValue("none", <<>>, <<>>)]
JSONOk(rest, v) == [ok |-> TRUE, rest |-> rest, v |-> v]

SkipWS(s) == TrimLeftSet(s, JSONSpace)

\* A string literal at the head of s: up to the next '"'; a control
\* character or a backslash before it is a syntax error here.
StringUpTo(s, j) ==
    IF \E k \in 2..(j - 1) : s[k] \in {"\\", "\n", "\t", "\r"}
    THEN JSONFail
    ELSE JSONOk(SubSeq(s, j + 1, Len(s)), JSONValue("str", SubSeq(s, 2, j - 1), <<>>))

ParseString(s) ==
    IF s = <<>> \/ s[1] # "\"" \/ ~(\E j \in 2..Len(s) : s[j] = "\"") THEN JSONFail
    ELSE StringUpTo(s, CHOOSE j \in 2..Len(s) :
                          s[j] = "\"" /\ \A k \in 2..(j - 1) : s[k] # "\"")

\* An integer at the head of s: an optional sign, then digits up to `rest`.
NumberUpTo(digits, rest) ==
    IF Len(rest) = Len(digits) THEN JSONFail ELSE JSONOk(rest, JSONValue("num", <<>>, <<>>))

ParseNumber(s) ==
    IF s # <<>> /\ s[1] = "-"
    THEN NumberUpTo(Tail(s), TrimLeftSet(Tail(s), JSONDigit))
    ELSE NumberUpTo(s, TrimLeftSet(s, JSONDigit))

RECURSIVE ParseValue(_)
RECURSIVE ParseMembers(_, _)
RECURSIVE ParseElements(_)

\* After a member's value: '}' ends the object, ',' leads to the next key.
MembersNext(s, read) ==
    IF s = <<>> THEN JSONFail
    ELSE IF s[1] = "}" THEN JSONOk(Tail(s), JSONValue("obj", <<>>, read))
    ELSE IF s[1] = "," THEN ParseMembers(SkipWS(Tail(s)), read)
    ELSE JSONFail

MembersAfterValue(key, val, acc) ==
    IF ~val.ok THEN JSONFail
    ELSE MembersNext(SkipWS(val.rest), Append(acc, <<key, val.v>>))

\* After a member's key: ':' and the value.
MembersAfterKey(k, s, acc) ==
    IF ~k.ok \/ s = <<>> \/ s[1] # ":" THEN JSONFail
    ELSE MembersAfterValue(k.v.s, ParseValue(SkipWS(Tail(s))), acc)

MembersKey(k, acc) == MembersAfterKey(k, SkipWS(k.rest), acc)

\* The members of an object, s standing at a key; acc holds those read.
ParseMembers(s, acc) == MembersKey(ParseString(s), acc)

\* After an array's element: ']' ends the array, ',' leads to the next one.
ElementsNext(s) ==
    IF s = <<>> THEN JSONFail
    ELSE IF s[1] = "]" THEN JSONOk(Tail(s), JSONValue("arr", <<>>, <<>>))
    ELSE IF s[1] = "," THEN ParseElements(SkipWS(Tail(s)))
    ELSE JSONFail

ElementsAfterValue(val) == IF ~val.ok THEN JSONFail ELSE ElementsNext(SkipWS(val.rest))

\* The elements of an array, s standing at an element.
ParseElements(s) == ElementsAfterValue(ParseValue(s))

\* After '{' and white space.
ParseObjectBody(s) ==
    IF s # <<>> /\ s[1] = "}"
    THEN JSONOk(Tail(s), JSONValue("obj", <<>>, <<>>))
    ELSE ParseMembers(s, <<>>)

\* After '[' and white space.
ParseArrayBody(s) ==
    IF s # <<>> /\ s[1] = "]"
    THEN JSONOk(Tail(s), JSONValue("arr", <<>>, <<>>))
    ELSE ParseElements(s)

\* One value at the head of s (leading white space already skipped).
ParseValue(s) ==
    IF s = <<>> THEN JSONFail
    ELSE IF s[1] \in {"{", "["}
         THEN IF s[1] = "{" THEN ParseObjectBody(SkipWS(Tail(s)))
                            ELSE ParseArrayBody(SkipWS(Tail(s)))
    ELSE IF s[1] = "\"" THEN ParseString(s)
    ELSE IF HasPrefix(s, <<"n","u","l","l">>)
         THEN JSONOk(SubSeq(s, 5, Len(s)), JSONValue("null", <<>>, <<>>))
    ELSE IF HasPrefix(s, <<"t","r","u","e">>)
         THEN JSONOk(SubSeq(s, 5, Len(s)), JSONValue("bool", <<>>, <<>>))
    ELSE IF HasPrefix(s, <<"f","a","l","s","e">>)
         THEN JSONOk(SubSeq(s, 6, Len(s)), JSONValue("bool", <<>>, <<>>))
    ELSE ParseNumber(s)

\* The whole document: one value, white space around it and nothing else.
WholeDocument(r) == IF r.ok /\ SkipWS(r.rest) = <<>> THEN r ELSE JSONFail

ParseJSON(content) == WholeDocument(ParseValue(SkipWS(content)))

\* Lower case of an ASCII letter (strings.EqualFold on field names).
UpperLetters == <<"A","B","C","D","E","F","G","H","I","J","K","L","M","N","O","P","Q","R","S","T","U","V","W","X","Y","Z">>
LowerLetters == <<"a","b","c","d","e","f","g","h","i","j","k","l","m","n","o","p","q","r","s","t","u","v","w","x","y","z">>

LowerChar(c) ==
    IF \E i \in 1..Len(UpperLetters) : UpperLetters[i] = c
    THEN LowerLetters[CHOOSE i \in 1..Len(UpperLetters) : UpperLetters[i] = c]
    ELSE c

EqualFold(a, b) ==
    /\ Len(a) = Len(b)
    /\ \A i \in 1..Len(a) : LowerChar(a[i]) = LowerChar(b[i])

\* The members of the document that json.Unmarshal stores into the struct
\* field tagged `name` (an exact or a case-folded key).
FieldMembers(doc, name) ==
    {i \in 1..Len(doc.members) : EqualFold(doc.members[i][1], name)}

\* Some member stored into the field is neither an object nor null.
FieldTypeError(doc, name) ==
    \E i \in FieldMembers(doc, name) : doc.members[i][2].t \notin {"obj", "null"}

\* json.Unmarshal returns an error for the parsed document r: a syntax
\* error, a document that is not an object (or null), or a field that is
\* not an object (or null).
UnmarshalFails(r) ==
    \/ ~r.ok
    \/ r.v.t \notin {"obj", "null"}
    \/ r.v.t = "obj" /\ FieldTypeError(r.v, <<"d","e","p","e","n","d","e","n","c","i","e","s">>)
    \/ r.v.t = "obj" /\ FieldTypeError(r.v, <<"d","e","v","D","e","p","e","n","d","e","n","c","i","e","s">>)

\* The keys of the map the struct field tagged `name` holds after a
\* successful json.Unmarshal of the document.
FieldKeys(doc, name) ==
    IF doc.t # "obj" THEN {}
    ELSE UNION {{doc.members[i][2].members[j][1] :
                    j \in 1..Len(doc.members[i][2].members)} :
                i \in FieldMembers(doc, name)}

\* The body gone wrong: no search of the content after a failed Unmarshal.
PackageInDocumentWithoutFallback(r, content, packageName) ==
    /\ ~UnmarshalFails(r)
    /\ \/ packageName \in FieldKeys(r.v, <<"d","e","p","e","n","d","e","n","c","i","e","s">>)
       \/ packageName \in FieldKeys(r.v, <<"d","e","v","D","e","p","e","n","d","e","n","c","i","e","s">>)

\* The body of isPackageInPackageJson, r the outcome of json.Unmarshal.
PackageInDocument(r, content, packageName) ==
    IF UnmarshalFails(r)
    THEN Contains(content, <<"\"">> \o packageName \o <<"\"">>)
    ELSE \/ packageName \in FieldKeys(r.v, <<"d","e","p","e","n","d","e","n","c","i","e","s">>)
         \/ packageName \in FieldKeys(r.v, <<"d","e","v","D","e","p","e","n","d","e","n","c","i","e","s">>)

\* isPackageInPackageJson(content, packageName)
isPackageInPackageJson(content, packageName) ==
    PackageInDocument(ParseJSON(content), content, packageName)

\* The dispatch of isPackageInFile on the base name of the file.
PackageInNamedFile(content, base, packageName) ==
    IF base = <<"p","a","c","k","a","g","e",".","j","s","o","n">> THEN isPackageInPackageJson(content, packageName)
    ELSE IF base = <<"G","e","m","f","i","l","e">> THEN isPackageInGemfile(content, packageName)
    ELSE IF HasSuffix(base, <<"r","e","q","u","i","r","e","m","e","n","t","s",".","t","x","t">>)
         THEN isPackageInRequirements(content, packageName)
    ELSE IF base = <<"y","a","r","n",".","l","o","c","k">> THEN isPackageInYarnLock(content, packageName)
    ELSE IF HasSuffix(base, <<".","g","e","m","s","p","e","c">>) THEN isPackageInGemspec(content, packageName)
    ELSE isPackageInGenericFile(content, packageName)

\* isPackageInFile(content, fileName, packageName, language)
isPackageInFile(content, fileName, packageName, language) ==
    PackageInNamedFile(content, Base(fileName), packageName)

---------------------------------------------------------------------------
(* Language detection and dependency analysis (package main).              *)

\* One of the orders in which a Go map or set of these keys is ranged over,
\* where the code's result does not keep the order.
OneOrder(S) == CHOOSE o \in Orders(S) : TRUE

\* hasMatchingFiles(dir, pattern)
hasMatchingFiles(tree, pattern) ==
    IF Contains(pattern, <<"/">>)
    THEN Glob(tree, pattern) # {}
    ELSE IF Contains(pattern, <<"*">>)
         THEN Glob(tree, pattern) # {}
         ELSE StatOK(tree, pattern)

\* The loop body gone wrong: a package manager counts only when every one
\* of its patterns matches.
LanguageFoundEveryPattern(tree, lang) ==
    \E pm \in DOMAIN lang.PackageManagers :
        \A i \in 1..Len(lang.PackageManagers[pm].Files) :
            hasMatchingFiles(tree, lang.PackageManagers[pm].Files[i])

\* The body of the loop of detectProjectLanguages: some pattern of some
\* package manager of the language matches.
LanguageFound(tree, lang) ==
    \E pm \in DOMAIN lang.PackageManagers :
        \E i \in 1..Len(lang.PackageManagers[pm].Files) :
            hasMatchingFiles(tree, lang.PackageManagers[pm].Files[i])

\* detectProjectLanguages(projectPath, stackData), the languages ranged over
\* in the given order.
RECURSIVE detectProjectLanguages(_, _, _)
detectProjectLanguages(order, tree, data) ==
    IF order = <<>> THEN <<>>
    ELSE (IF LanguageFound(tree, data[Head(order)]) THEN <<Head(order)>> ELSE <<>>)
         \o detectProjectLanguages(Tail(order), tree, data)

\* The packages of the list that isPackageInFile finds in the file, as
\* PackageInfo records, in list order.
RECURSIVE FoundPackages(_, _, _)
FoundPackages(file, packages, language) ==
    IF packages = <<>> THEN <<>>
    ELSE (IF isPackageInFile(file.content, Base(file.path), Head(packages), language)
          THEN <<[Name |-> Head(packages), File |-> file.path]>>
          ELSE <<>>)
         \o FoundPackages(file, Tail(packages), language)

\* packages, exists := service.Stacks[language]: nothing to look for when
\* the service has no stack for the language.
StackPackages(stacks, language) ==
    IF language \in DOMAIN stacks THEN stacks[language] ELSE <<>>

\* The append gone wrong: a ServiceDetection for every service looked for.
ServiceDetectionAlways(serviceName, language, found) ==
    <<[Name |-> serviceName, Language |-> language, Packages |-> found]>>

\* The ServiceDetection appended when some package was found.
ServiceDetectionOf(serviceName, language, found) ==
    IF Len(found) > 0
    THEN <<[Name |-> serviceName, Language |-> language, Packages |-> found]>>
    ELSE <<>>

\* The loop of analyzeFile over the services, in the given order.
RECURSIVE AnalyzeServices(_, _, _, _)
AnalyzeServices(order, file, language, services) ==
    IF order = <<>> THEN <<>>
    ELSE ServiceDetectionOf(Head(order), language,
             FoundPackages(file, StackPackages(services[Head(order)].Stacks, language),
                           language))
         \o AnalyzeServices(Tail(order), file, language, services)

\* analyzeFile gone wrong: the content is analysed although reading the
\* file failed.
analyzeFileUnchecked(file, language, services) ==
    AnalyzeServices(OneOrder(DOMAIN services), file, language, services)

\* analyzeFile(filePath, language, servicesData): nothing for a file that
\* cannot be read.
analyzeFile(file, language, services) ==
    IF ~file.readable THEN <<>>
    ELSE AnalyzeServices(OneOrder(DOMAIN services), file, language, services)

\* packageMap of the merge: the last PackageInfo of each package name.
PackageMap(packages) ==
    [n \in {packages[i].Name : i \in 1..Len(packages)} |->
        packages[CHOOSE i \in 1..Len(packages) :
                    /\ packages[i].Name = n
                    /\ \A j \in (i + 1)..Len(packages) : packages[j].Name # n]]

\* The values of a map as a slice, ranged over in the order `names`.
ValuesInOrder(m, names) == [i \in 1..Len(names) |-> m[names[i]]]

MapValues(m) == ValuesInOrder(m, OneOrder(DOMAIN m))

\* The merge gone wrong: a service already in servicesMap keeps the packages
\* of its first ServiceDetection.
MergeServiceKeepFirst(servicesMap, service) ==
    IF service.Name \in DOMAIN servicesMap
    THEN servicesMap
    ELSE MergeInto(servicesMap, Entry(service.Name, service))

\* The merge gone wrong: the packages of the second ServiceDetection are
\* appended to those of the first.
MergeServiceAppend(servicesMap, service) ==
    IF service.Name \in DOMAIN servicesMap
    THEN [servicesMap EXCEPT ![service.Name].Packages =
             servicesMap[service.Name].Packages \o service.Packages]
    ELSE MergeInto(servicesMap, Entry(service.Name, service))

\* The merge of one ServiceDetection into servicesMap.
MergeService(servicesMap, service) ==
    IF service.Name \in DOMAIN servicesMap
    THEN [servicesMap EXCEPT ![service.Name].Packages =
             MapValues(PackageMap(servicesMap[service.Name].Packages \o service.Packages))]
    ELSE MergeInto(servicesMap, Entry(service.Name, service))

RECURSIVE MergeServices(_, _)
MergeServices(servicesMap, detections) ==
    IF detections = <<>> THEN servicesMap
    ELSE MergeServices(MergeService(servicesMap, Head(detections)), Tail(detections))

\* The files of a language: the glob matches of every pattern of every
\* package manager, each file once.
FoundFiles(tree, lang) ==
    UNION {UNION {Glob(tree, lang.PackageManagers[pm].Files[i]) :
                     i \in 1..Len(lang.PackageManagers[pm].Files)} :
              pm \in DOMAIN lang.PackageManagers}

\* The analysis of the found files of one language, each file once, merged
\* into servicesMap.
RECURSIVE AnalyzeFiles(_, _, _, _)
AnalyzeFiles(servicesMap, files, language, services) ==
    IF files = <<>> THEN servicesMap
    ELSE AnalyzeFiles(MergeServices(servicesMap, analyzeFile(Head(files), language, services)),
                      Tail(files), language, services)

\* The DetectionResult appended for a language with files or services.
DetectionResultOf(language, foundFiles, found) ==
    IF Len(foundFiles) > 0 \/ Len(found) > 0
    THEN <<[Language |-> language,
            Files |-> [i \in 1..Len(foundFiles) |-> foundFiles[i].path],
            Services |-> found]>>
    ELSE <<>>

LanguageResult(language, foundFiles, services) ==
    DetectionResultOf(language, foundFiles,
        MapValues(AnalyzeFiles(EmptyMap, foundFiles, language, services)))

\* The body of the loop of analyzeProjectDependencies for one language, as
\* a sequence of zero or one DetectionResult.
AnalyzeLanguage(language, tree, data, services) ==
    LanguageResult(language, OneOrder(FoundFiles(tree, data[language])), services)

\* analyzeProjectDependencies(projectPath, languages, stackData, servicesData)
RECURSIVE analyzeProjectDependencies(_, _, _, _)
analyzeProjectDependencies(tree, languages, data, services) ==
    IF languages = <<>> THEN <<>>
    ELSE AnalyzeLanguage(Head(languages), tree, data, services)
         \o analyzeProjectDependencies(tree, Tail(languages), data, services)

---------------------------------------------------------------------------
(* detectors.ServicesDetector behind ServicesDependenciesAdapter.           *)

\* The conversion of []DetectionResult to []ProjectResult: each service
\* reduced to its name.
ProjectResultsOf(results) ==
    [i \in 1..Len(results) |->
        [Language |-> results[i].Language,
         Services |-> [j \in 1..Len(results[i].Services) |->
                          [Name |-> results[i].Services[j].Name]]]]

VARIABLE
    loadError    \* which bundled data file fails to load ("none" if none)

\* data/services/*.yml: the file that holds the definition of each service.
serviceFiles == (<<"s","t","r","i","p","e">> :> "stripe.yml") @@ (<<"d","b","t">> :> "dbt.yml")

\* loadServicesData(): the definitions of the services whose file can be
\* read and parsed; a file that cannot is passed over.
loadServicesData ==
    [s \in {k \in DOMAIN servicesData : serviceFiles[k] # loadError} |-> servicesData[s]]

\* The loads that end the scan: the language patterns, the directory of the
\* service definitions, the file-detector data.
LoadFails == loadError \in {"stack", "services", "files"}

\* ServicesDependenciesAdapter.AnalyzeProjectDependencies
Adapter_AnalyzeProjectDependencies(tree, languages) ==
    ProjectResultsOf(analyzeProjectDependencies(tree, languages, stackData, loadServicesData))

\* ServicesDependenciesAdapter.GetServicesData: ServiceInfo per service key.
Adapter_GetServicesData ==
    [key \in DOMAIN loadServicesData |->
        [Name |-> loadServicesData[key].Name, URL |-> loadServicesData[key].URL]]

\* The inner loop gone wrong: the entry is keyed by the service key of the
\* catalog, not by the name of the service.
RECURSIVE ServiceEntriesByID(_, _, _)
ServiceEntriesByID(results, services, info) ==
    IF services = <<>> THEN results
    ELSE ServiceEntriesByID(
             IF Head(services).Name \in DOMAIN info
             THEN MergeInto(results, Entry(Head(services).Name,
                                           info[Head(services).Name].URL))
             ELSE results,
             Tail(services), info)

\* The inner loop of ServicesDetector.Detect over the services of a result.
RECURSIVE ServiceEntries(_, _, _)
ServiceEntries(results, services, info) ==
    IF services = <<>> THEN results
    ELSE ServiceEntries(
             IF Head(services).Name \in DOMAIN info
             THEN MergeInto(results, Entry(info[Head(services).Name].Name,
                                           info[Head(services).Name].URL))
             ELSE results,
             Tail(services), info)

\* The outer loop of ServicesDetector.Detect over the project results.
RECURSIVE ProjectEntries(_, _, _)
ProjectEntries(results, projectResults, info) ==
    IF projectResults = <<>> THEN results
    ELSE ProjectEntries(ServiceEntries(results, Head(projectResults).Services, info),
                        Tail(projectResults), info)

\* The detector gone wrong: the dependency analysis runs even when no
\* language was detected.
ServicesOfLanguagesAlwaysAnalyzing(detectedLanguages, tree) ==
    [results |-> ProjectEntries(EmptyMap,
                     Adapter_AnalyzeProjectDependencies(tree, detectedLanguages),
                     Adapter_GetServicesData),
     err |-> FALSE,
     analyzed |-> TRUE]

\* ServicesDetector.Detect after detectProjectLanguages: nothing without a
\* language, else one entry per detected service the catalog knows.  The
\* field `analyzed` records whether AnalyzeProjectDependencies was called.
ServicesOfLanguages(detectedLanguages, tree) ==
    IF Len(detectedLanguages) = 0
    THEN [results |-> EmptyMap, err |-> FALSE, analyzed |-> FALSE]
    ELSE [results |-> ProjectEntries(EmptyMap,
                          Adapter_AnalyzeProjectDependencies(tree, detectedLanguages),
                          Adapter_GetServicesData),
          err |-> FALSE,
          analyzed |-> TRUE]

\* ServicesDetector.Detect(projectPath), the languages of the catalog ranged
\* over in the given order.  It never fails.
ServicesDetector_Detect(langOrder, tree) ==
    ServicesOfLanguages(detectProjectLanguages(langOrder, tree, stackData), tree)

---------------------------------------------------------------------------
(* The configuration file: createConfigFromDetectorResults (package main). *)
(* A file is [exists, content]; yaml.v2 is modelled on block mappings one  *)
(* level deep with plain keys and values, the shape the program writes.    *)

\* projectName: customProjectName, else the base name of the directory of
\* the configuration file.
projectName == <<"s","h","o","p">>

\* strings.Join(elems, sep)
RECURSIVE Join(_, _)
Join(elems, sep) ==
    IF Len(elems) = 0 THEN <<>>
    ELSE IF Len(elems) = 1 THEN elems[1]
    ELSE elems[1] \o sep \o Join(Tail(elems), sep)

\* getTechnologyDisplayName(techKey, url): the display name of the catalog,
\* "Repository" for "repo", else strings.Title(techKey), which puts in upper
\* case every letter that starts a word.
getTechnologyDisplayName(techKey) ==
    IF techKey \in DOMAIN fileDetectorsData /\ fileDetectorsData[techKey].DisplayName # <<>>
    THEN fileDetectorsData[techKey].DisplayName
    ELSE IF techKey = <<"r","e","p","o">>
         THEN <<"R","e","p","o","s","i","t","o","r","y">>
         ELSE [i \in 1..Len(techKey) |->
                  IF /\ \E n \in 1..Len(LowerLetters) : LowerLetters[n] = techKey[i]
                     /\ \/ i = 1
                        \/ techKey[i - 1] \notin Range(LowerLetters) \cup Range(UpperLetters)
                                                  \cup Range(<<"0","1","2","3","4","5","6","7","8","9","_">>)
                  THEN UpperLetters[CHOOSE n \in 1..Len(LowerLetters) : LowerLetters[n] = techKey[i]]
                  ELSE techKey[i]]

\* The lines of yaml.Marshal(data) for a map of strings: "key: value", the
\* keys in the order of yaml.v2 (at the first difference a character that is
\* not a letter comes before a letter, else the code points decide; a prefix
\* comes first).
MarshalLines(data) ==
    LET alphabet == <<" ","-",".","/","0","1","2","3","4","5","6","7","8","9",":","_">> \o UpperLetters \o LowerLetters
        Rank(c) == CHOOSE n \in 1..Len(alphabet) : alphabet[n] = c
        Less(a, b) ==
            \E i \in 1..Len(b) :
                /\ i - 1 <= Len(a)
                /\ SubSeq(a, 1, i - 1) = SubSeq(b, 1, i - 1)
                /\ (i > Len(a) \/ Rank(a[i]) < Rank(b[i]))
        keys == CHOOSE o \in Orders(DOMAIN data) :
                    \A i \in 1..(Len(o) - 1) : Less(o[i], o[i + 1])
    IN  [i \in 1..Len(keys) |-> keys[i] \o <<":"," ">> \o data[keys[i]]]

\* yaml.Unmarshal(content, &data): the root keys, each with the entries of
\* its mapping (none if its value is not a mapping).  Of a key met twice
\* the last value is kept.
Unmarshal(content) ==
    LET lines == SplitChar(content, "\n")
        Indented(line) == line # <<>> /\ line[1] \in {" ", "\t"}
        Blank(line) == TrimSpace(line) = <<>> \/ HasPrefix(TrimSpace(line), <<"#">>)
        KeyOf(line) == TrimSpace(SplitChar(line, ":")[1])
        ValueOf(line) ==
            TrimSpace(SubSeq(line, Len(SplitChar(line, ":")[1]) + 2, Len(line)))
        roots == {i \in 1..Len(lines) : ~Blank(lines[i]) /\ ~Indented(lines[i])}
        LastRoot(r) == CHOOSE i \in roots :
                           /\ KeyOf(lines[i]) = r
                           /\ \A j \in roots : KeyOf(lines[j]) = r => j <= i
        Members(i) == {j \in (i + 1)..Len(lines) :
                          /\ ~Blank(lines[j]) /\ Indented(lines[j])
                          /\ \A m \in roots : ~(i < m /\ m < j)}
        LastMember(i, k) == CHOOSE j \in Members(i) :
                                /\ KeyOf(lines[j]) = k
                                /\ \A m \in Members(i) : KeyOf(lines[m]) = k => m <= j
    IN  [r \in {KeyOf(lines[i]) : i \in roots} |->
            IF ValueOf(lines[LastRoot(r)]) = <<>>
            THEN [k \in {KeyOf(lines[j]) : j \in Members(LastRoot(r))} |->
                     ValueOf(lines[LastMember(LastRoot(r), k)])]
            ELSE EmptyMap]

\* newData, for every order in which `for key, value := range results` can
\* run: the results whose value is not a value of the project's section
\* (looked up by projectName), under their display names.  Of the keys that
\* share a display name the last one ranged over wins: any one of them.
NewDataChoices(file, results) ==
    LET existingData == IF file.exists THEN Unmarshal(file.content) ELSE EmptyMap
        existingValues == IF projectName \in DOMAIN existingData
                          THEN {existingData[projectName][k] : k \in DOMAIN existingData[projectName]}
                          ELSE {}
        Display(key) == IF key = <<"r","e","p","o">> THEN <<"R","e","p","o","s","i","t","o","r","y">> ELSE getTechnologyDisplayName(key)
        fresh == {key \in DOMAIN results : results[key] \notin existingValues}
    IN  { [n \in {Display(w) : w \in winners} |->
              results[CHOOSE w \in winners : Display(w) = n]]
          : winners \in {W \in SUBSET fresh :
                            \A key \in fresh :
                                Cardinality({w \in W : Display(w) = Display(key)}) = 1} }

\* sections: the content cut before every root key line (a line that does
\* not start with a blank and ends with ":" once trimmed); the lines before
\* the first root key, if any, are a section as well.
Sections(content) ==
    LET lines == SplitChar(content, "\n")
        heads == {1} \cup {i \in 1..Len(lines) :
                              /\ Len(lines[i]) > 0
                              /\ lines[i][1] \notin {" ", "\t"}
                              /\ HasSuffix(TrimSpace(lines[i]), <<":">>)}
        Nth(k) == CHOOSE h \in heads : Cardinality({g \in heads : g < h}) = k - 1
    IN  [k \in 1..Cardinality(heads) |->
            Join(SubSeq(lines, Nth(k),
                        IF k = Cardinality(heads) THEN Len(lines) ELSE Nth(k + 1) - 1),
                 <<"\n">>)]

\* projectSectionIndex, from 1, or 0 when foundProjectSection is false: the
\* last section whose root key is projectName, else, when the results have
\* a repository, the first section whose mapping has repo or Repository
\* with that URL.
projectSectionIndex(sections, results) ==
    LET First(k) == SplitChar(sections[k], "\n")[1]
        named == {k \in 1..Len(sections) :
                     /\ Len(First(k)) > 0
                     /\ First(k)[1] \notin {" ", "\t"}
                     /\ HasSuffix(TrimSpace(First(k)), <<":">>)
                     /\ TrimSuffix(TrimSpace(First(k)), <<":">>) = projectName}
        Data(k) == Unmarshal(sections[k])
        sameRepo == {k \in 1..Len(sections) :
                        \E r \in DOMAIN Data(k) :
                            \E f \in {<<"r","e","p","o">>, <<"R","e","p","o","s","i","t","o","r","y">>} :
                                /\ f \in DOMAIN Data(k)[r]
                                /\ Data(k)[r][f] = results[<<"r","e","p","o">>]}
    IN  IF named # {}
        THEN CHOOSE k \in named : \A m \in named : m <= k
        ELSE IF <<"r","e","p","o">> \in DOMAIN results /\ results[<<"r","e","p","o">>] # <<>> /\ sameRepo # {}
             THEN CHOOSE k \in sameRepo : \A m \in sameRepo : k <= m
             ELSE 0

\* createConfigFromDetectorResults(configPath, results, customProjectName):
\* the files it can leave, one per newData.
createConfigFromDetectorResults(file, results) ==
    LET Indent(newYamlLines) ==
            Join([i \in 1..Len(newYamlLines) |-> <<" "," ">> \o newYamlLines[i] \o <<"\n">>], <<>>)
        Add(sections, index, indentedYaml) ==
            IF index # 0
            THEN [sections EXCEPT ![index] =
                     TrimSuffix(@, <<"\n">>) \o <<"\n">> \o TrimSuffix(indentedYaml, <<"\n">>)]
            ELSE Append(sections, projectName \o <<":","\n">> \o TrimSuffix(indentedYaml, <<"\n">>))
        NonEmpty(sections) ==
            SelectSeq([k \in 1..Len(sections) |-> TrimSpace(sections[k])],
                      LAMBDA s : s # <<>>)
        Final(nonEmptySections) ==
            IF Len(nonEmptySections) > 0
            THEN Join(nonEmptySections, <<"\n","\n">>) \o <<"\n">>
            ELSE <<>>
        Update(sections, newYaml) ==
            Final(NonEmpty(Add(sections, projectSectionIndex(sections, results),
                               Indent(SelectSeq(SplitChar(newYaml, "\n"),
                                                LAMBDA line : TrimSpace(line) # <<>>)))))
        Create(newYamlLines) ==
            TrimSpace(IF Len(newYamlLines) = 0
                      THEN projectName \o <<":"," ","{","}","\n">>
                      ELSE projectName \o <<":","\n">> \o Indent(newYamlLines)) \o <<"\n">>
    IN  { IF file.exists
          THEN IF DOMAIN newData = {}
               THEN file
               ELSE [exists |-> TRUE,
                     content |-> Update(Sections(file.content),
                                        Join(MarshalLines(newData), <<"\n">>) \o <<"\n">>)]
          ELSE [exists |-> TRUE, content |-> Create(MarshalLines(newData))]
          : newData \in NewDataChoices(file, results) }

---------------------------------------------------------------------------
(* handleScan: the detection coordinator.                                  *)

VARIABLES
    tree,        \* the directory tree under projectPath
    git,         \* what the git client answers in the working directory
    projectGit,  \* the version-control state of the directory projectPath
    pc,          \* "start", "failed", "phase1", "phase2", "done"
    idx,         \* index of the next detector of the running phase
    allResults,  \* handleScan's allResults
    ctxResults,  \* ctx.Results of the DetectionContext
    calls,       \* history: the detectors invoked so far, in order
    returned,    \* history: what each invoked detector returned
    ctxSeen,     \* history: ctx.Results as passed to each invoked detector
    configFile,  \* the configuration file at configPath
    written      \* history: the file before and after each call that writes it

vars == <<tree, git, projectGit, loadError, pc, idx, allResults, ctxResults, calls, returned, ctxSeen,
          configFile, written>>

\* phase1Detectors: the services detector, then the git detector, each
\* behind a SimpleDetectorAdapter.
phase1Detectors == <<"services", "git">>

\* phase2Detectors: the files detector.
phase2Detectors == <<"files">>

\* The orders in which `for language := range stackData.Languages` and
\* `for techKey := range f.data.Technologies` can run.
LanguageOrders == Orders(DOMAIN stackData)
TechnologyOrders == Orders(DOMAIN fileDetectorsData)

SomeTechnologyOrder == OneOrder(DOMAIN fileDetectorsData)

\* SimpleDetectorAdapter.Detect(ctx) and FilesDetector.Detect(ctx): every
\* (results, err) the named detector can return for the context, one per
\* order in which its catalog map can be ranged over.  The adapters pass on
\* ctx.ProjectPath only.
Detect(name, projectTree, gitState, contextResults) ==
    IF name = "services"
    THEN {ServicesDetector_Detect(o, projectTree) : o \in LanguageOrders}
    ELSE IF name = "git"
         THEN {GitRepositoryDetector_Detect(gitState)}
         ELSE {FilesDetector_Detect(o, fileDetectorsData, projectTree, contextResults) :
                  o \in TechnologyOrders}

\* A variant of the merge in which the first value of a key is kept: the
\* sensitivity test of last-write-wins.
MergeKeepFirst(all, results) == MergeInto(results, all)

\* A variant of the context update that publishes nothing: the sensitivity
\* test of the context handed to phase 2.
KeepContext(context, results) == context

\* for key, value := range results { allResults[key] = value }
MergeResults(all, results) == MergeInto(all, results)

\* ctx.Results[key] = value, for each key of a phase-1 result.
UpdateContext(context, results) == MergeInto(context, results)

\* The state of handleScan when it starts.
Started ==
    /\ pc = "start"
    /\ idx = 1
    /\ allResults = EmptyMap
    /\ ctxResults = EmptyMap
    /\ calls = <<>>
    /\ returned = EmptyMap
    /\ ctxSeen = EmptyMap
    /\ written = <<>>

\* A scan of the working directory, with every service definition intact.
Init ==
    /\ tree \in Trees
    /\ git \in GitStates
    /\ projectGit = git
    /\ loadError \in {"none", "stack", "services", "files"}
    /\ configFile = [exists |-> FALSE, content |-> <<>>]
    /\ Started

\* A scan of a directory that need not be the working directory, with a
\* service definition that may be broken.
InitAnywhere ==
    /\ tree \in { {},
                  {File(<<"G","e","m","f","i","l","e">>, <<"g","e","m"," ","'","s","t","r","i","p","e","'",","," ","'","~",">"," ","5",".","0","'","\n","g","e","m"," ","'","r","a","i","l","s","'","\n">>),
                   File(<<"r","e","q","u","i","r","e","m","e","n","t","s",".","t","x","t">>, <<"s","t","r","i","p","e","=","=","2",".","0","\n","d","b","t","-","c","o","r","e",">","=","1",".","0","\n">>),
                   Dir(<<".","g","i","t","h","u","b">>), Dir(<<".","g","i","t","h","u","b","/","w","o","r","k","f","l","o","w","s">>)} }
    /\ git \in GitStates
    /\ projectGit \in GitStates
    /\ loadError \in {"none", "stack", "services", "files", "stripe.yml", "dbt.yml"}
    /\ configFile = [exists |-> FALSE, content |-> <<>>]
    /\ Started

\* loadStackDependencyFiles, loadServicesData, loadFileDetectorsData: the
\* scan returns at the first that fails, else builds the detector lists and
\* the empty context.
LoadCatalog ==
    /\ pc = "start"
    /\ pc' = IF LoadFails THEN "failed" ELSE "phase1"
    /\ UNCHANGED <<configFile, written, tree, git, projectGit, loadError, idx, allResults, ctxResults, calls, returned, ctxSeen>>

\* A variant of the phase-1 iteration in which an error ends the scan: the
\* sensitivity test of the isolation of a failing detector.
Phase1StepAbort ==
    /\ pc = "phase1"
    /\ \E out \in Detect(phase1Detectors[idx], tree, git, ctxResults) :
        /\ calls' = Append(calls, phase1Detectors[idx])
        /\ returned' = MergeInto(returned, Entry(phase1Detectors[idx], out))
        /\ ctxSeen' = MergeInto(ctxSeen, Entry(phase1Detectors[idx], ctxResults))
        /\ allResults' = IF out.err THEN allResults ELSE MergeResults(allResults, out.results)
        /\ ctxResults' = IF out.err THEN ctxResults ELSE UpdateContext(ctxResults, out.results)
        /\ IF out.err
           THEN idx' = 1 /\ pc' = "done"
           ELSE IF idx < Len(phase1Detectors)
                THEN idx' = idx + 1 /\ pc' = pc
                ELSE idx' = 1 /\ pc' = "phase2"
    /\ UNCHANGED <<configFile, written, tree, git, projectGit, loadError>>

\* One iteration of the phase-1 loop: the detector's results are merged into
\* allResults and into ctx.Results unless it returned an error.
Phase1Step ==
    /\ pc = "phase1"
    /\ \E out \in Detect(phase1Detectors[idx], tree, git, ctxResults) :
        /\ calls' = Append(calls, phase1Detectors[idx])
        /\ returned' = MergeInto(returned, Entry(phase1Detectors[idx], out))
        /\ ctxSeen' = MergeInto(ctxSeen, Entry(phase1Detectors[idx], ctxResults))
        /\ allResults' = IF out.err THEN allResults ELSE MergeResults(allResults, out.results)
        /\ ctxResults' = IF out.err THEN ctxResults ELSE UpdateContext(ctxResults, out.results)
    /\ IF idx < Len(phase1Detectors)
       THEN idx' = idx + 1 /\ pc' = pc
       ELSE idx' = 1 /\ pc' = "phase2"
    /\ UNCHANGED <<configFile, written, tree, git, projectGit, loadError>>

\* A variant of the phase-2 iteration that also publishes the results in
\* the context: the sensitivity test of the read-only context of phase 2.
Phase2StepPublishing ==
    /\ pc = "phase2"
    /\ \E out \in Detect(phase2Detectors[idx], tree, git, ctxResults) :
        /\ calls' = Append(calls, phase2Detectors[idx])
        /\ returned' = MergeInto(returned, Entry(phase2Detectors[idx], out))
        /\ ctxSeen' = MergeInto(ctxSeen, Entry(phase2Detectors[idx], ctxResults))
        /\ allResults' = IF out.err THEN allResults ELSE MergeResults(allResults, out.results)
        /\ ctxResults' = IF out.err THEN ctxResults ELSE UpdateContext(ctxResults, out.results)
    /\ IF idx < Len(phase2Detectors)
       THEN idx' = idx + 1 /\ pc' = pc
       ELSE idx' = 1 /\ pc' = "done"
    /\ UNCHANGED <<configFile, written, tree, git, projectGit, loadError>>

\* A variant of the phase-2 iteration after which phase 1 runs again: the
\* sensitivity test of the order of the phases.
Phase2StepRestart ==
    /\ pc = "phase2"
    /\ Len(calls) < Len(phase1Detectors) + 2 * Len(phase2Detectors)
    /\ \E out \in Detect(phase2Detectors[idx], tree, git, ctxResults) :
        /\ calls' = Append(calls, phase2Detectors[idx])
        /\ returned' = MergeInto(returned, Entry(phase2Detectors[idx], out))
        /\ ctxSeen' = MergeInto(ctxSeen, Entry(phase2Detectors[idx], ctxResults))
        /\ allResults' = IF out.err THEN allResults ELSE MergeResults(allResults, out.results)
    /\ idx' = 1 /\ pc' = "phase1"
    /\ UNCHANGED <<configFile, written, tree, git, projectGit, loadError, ctxResults>>

\* One iteration of the phase-2 loop: the detector's results are merged into
\* allResults only.
Phase2Step ==
    /\ pc = "phase2"
    /\ \E out \in Detect(phase2Detectors[idx], tree, git, ctxResults) :
        /\ calls' = Append(calls, phase2Detectors[idx])
        /\ returned' = MergeInto(returned, Entry(phase2Detectors[idx], out))
        /\ ctxSeen' = MergeInto(ctxSeen, Entry(phase2Detectors[idx], ctxResults))
        /\ allResults' = IF out.err THEN allResults ELSE MergeResults(allResults, out.results)
    /\ IF idx < Len(phase2Detectors)
       THEN idx' = idx + 1 /\ pc' = pc
       ELSE idx' = 1 /\ pc' = "done"
    /\ UNCHANGED <<configFile, written, tree, git, projectGit, loadError, ctxResults>>

\* The end of handleScan for the yml-config format: the configuration file
\* is created or updated from allResults.
WriteConfig ==
    /\ pc = "done"
    /\ written = <<>>
    /\ \E file \in createConfigFromDetectorResults(configFile, allResults) :
        /\ configFile' = file
        /\ written' = Append(written, [before |-> configFile, after |-> file])
    /\ UNCHANGED <<tree, git, projectGit, loadError, pc, idx, allResults, ctxResults, calls, returned, ctxSeen>>

Next == LoadCatalog \/ Phase1Step \/ Phase2Step \/ WriteConfig

Spec == Init /\ [][Next]_vars

SpecAnywhere == InitAnywhere /\ [][Next]_vars

\* How many times in succession the configuration file is written.
MaxScans == 2

\* createConfigFromDetectorResults called again with the same results, the
\* same configPath and the same project name.
WriteAgain ==
    /\ pc = "done"
    /\ written # <<>>
    /\ Len(written) < MaxScans
    /\ \E file \in createConfigFromDetectorResults(configFile, allResults) :
        /\ configFile' = file
        /\ written' = Append(written, [before |-> configFile, after |-> file])
    /\ UNCHANGED <<tree, git, projectGit, loadError, pc, idx, allResults, ctxResults, calls, returned, ctxSeen>>

\* createConfigFromDetectorResults about to be called at the end of a scan,
\* with any mapping of the results below and the file configPath absent,
\* empty, or holding sections of this and of other projects.
ConfigInit ==
    /\ allResults \in
          UNION { [keys -> {<<"h","t","t","p","s",":","/","/","s","t","r","i","p","e",".","c","o","m">>, <<"h","t","t","p","s",":","/","/","d","a","s","h","b","o","a","r","d",".","s","t","r","i","p","e",".","c","o","m">>,
                            <<"h","t","t","p","s",":","/","/","g","i","t","h","u","b",".","c","o","m","/","o","r","g","/","r","e","p","o">>,
                            <<"h","t","t","p","s",":","/","/","g","i","t","h","u","b",".","c","o","m","/","o","r","g","/","r","e","p","o","/","a","c","t","i","o","n","s">>}]
                  : keys \in SUBSET {<<"r","e","p","o">>, <<"S","t","r","i","p","e">>, <<"s","t","r","i","p","e">>, <<"g","i","t","h","u","b","-","a","c","t","i","o","n","s">>} }
    /\ \A key \in DOMAIN allResults :
          allResults[key] = CASE key = <<"r","e","p","o">> -> <<"h","t","t","p","s",":","/","/","g","i","t","h","u","b",".","c","o","m","/","o","r","g","/","r","e","p","o">>
                              [] key = <<"S","t","r","i","p","e">> -> <<"h","t","t","p","s",":","/","/","s","t","r","i","p","e",".","c","o","m">>
                              [] key = <<"s","t","r","i","p","e">> -> <<"h","t","t","p","s",":","/","/","d","a","s","h","b","o","a","r","d",".","s","t","r","i","p","e",".","c","o","m">>
                              [] OTHER -> <<"h","t","t","p","s",":","/","/","g","i","t","h","u","b",".","c","o","m","/","o","r","g","/","r","e","p","o","/","a","c","t","i","o","n","s">>
    /\ configFile \in
          { [exists |-> FALSE, content |-> <<>>],
            [exists |-> TRUE, content |-> <<>>],
            [exists |-> TRUE,
             content |-> <<"o","t","h","e","r",":","\n"," "," ","R","e","p","o","s","i","t","o","r","y",":"," ","h","t","t","p","s",":","/","/","g","i","t","h","u","b",".","c","o","m","/","a","c","m","e","/","o","t","h","e","r","\n"," "," ","S","t","r","i","p","e",":"," ","h","t","t","p","s",":","/","/","s","t","r","i","p","e",".","c","o","m","\n">>],
            [exists |-> TRUE,
             content |-> <<"o","t","h","e","r",":","\n"," "," ","R","e","p","o","s","i","t","o","r","y",":"," ","h","t","t","p","s",":","/","/","g","i","t","h","u","b",".","c","o","m","/","a","c","m","e","/","o","t","h","e","r","\n","\n","s","h","o","p",":","\n"," "," ","R","e","p","o","s","i","t","o","r","y",":"," ","h","t","t","p","s",":","/","/","g","i","t","h","u","b",".","c","o","m","/","o","r","g","/","r","e","p","o","\n"," "," ","S","t","r","i","p","e",":"," ","h","t","t","p","s",":","/","/","s","t","r","i","p","e",".","c","o","m","\n">>],
            [exists |-> TRUE,
             content |-> <<"s","h","o","p",":","\n"," "," ","R","e","p","o","s","i","t","o","r","y",":"," ","h","t","t","p","s",":","/","/","g","i","t","h","u","b",".","c","o","m","/","o","r","g","/","o","l","d","\n"," "," ","S","e","n","t","r","y",":"," ","h","t","t","p","s",":","/","/","s","e","n","t","r","y",".","i","o","\n","\n","o","t","h","e","r",":","\n"," "," ","S","t","r","i","p","e",":"," ","h","t","t","p","s",":","/","/","s","t","r","i","p","e",".","c","o","m","\n">>],
            [exists |-> TRUE,
             content |-> <<"l","e","g","a","c","y",":","\n"," "," ","R","e","p","o","s","i","t","o","r","y",":"," ","h","t","t","p","s",":","/","/","g","i","t","h","u","b",".","c","o","m","/","o","r","g","/","r","e","p","o","\n","\n","o","t","h","e","r",":","\n"," "," ","R","e","p","o","s","i","t","o","r","y",":"," ","h","t","t","p","s",":","/","/","g","i","t","h","u","b",".","c","o","m","/","a","c","m","e","/","o","t","h","e","r","\n">>] }
    /\ tree = {}
    /\ git \in {g \in GitStates : ~g.isRepo}
    /\ projectGit = git
    /\ loadError = "none"
    /\ pc = "done"
    /\ idx = 1
    /\ ctxResults = EmptyMap
    /\ calls = <<>>
    /\ returned = EmptyMap
    /\ ctxSeen = EmptyMap
    /\ written = <<>>

ConfigNext == WriteConfig \/ WriteAgain

ConfigSpec == ConfigInit /\ [][ConfigNext]_vars

\* The control flow of handleScan, whatever the detectors return: the
\* early return or the first loop after the loads, the next detector of a
\* loop after a detector, the next phase after the last one of a loop.
Advance ==
    \/ /\ pc = "start"
       /\ pc' = (IF LoadFails THEN "failed" ELSE "phase1")
       /\ idx' = idx
    \/ /\ pc = "phase1"
       /\ IF idx < Len(phase1Detectors)
          THEN idx' = idx + 1 /\ pc' = pc
          ELSE idx' = 1 /\ pc' = "phase2"
    \/ /\ pc = "phase2"
       /\ IF idx < Len(phase2Detectors)
          THEN idx' = idx + 1 /\ pc' = pc
          ELSE idx' = 1 /\ pc' = "done"

\* handleScan is one sequential function, and every call of Detect is taken
\* to return: as long as the scan has a next statement, it is executed.
FairSpec == Spec /\ WF_<<pc, idx>>(Advance)

---------------------------------------------------------------------------
(* Properties of the coordinator and of the generic technology detector.   *)

\* The detectors in execution order: phase 1 in list order, then phase 2.
ExecutionOrder == phase1Detectors \o phase2Detectors

\* The detectors that have returned without error.
Succeeded == {d \in DOMAIN returned : ~returned[d].err}

\* What buildURL falls back to: fallback_url if set, else the technology id.
FallbackOrID(config, technology) ==
    IF config.FallbackURL # <<>> THEN config.FallbackURL ELSE technology

\* The categories of the catalog, the technologies of a category with a
\* matching file, and those of them whose hosting_match the published
\* "repo" contains.
Categories == {fileDetectorsData[t].Category : t \in DOMAIN fileDetectorsData}

MatchedTechnologies(projectTree, category) ==
    {t \in DOMAIN fileDetectorsData :
        /\ fileDetectorsData[t].Category = category
        /\ FilesDetector_hasMatchingFiles(projectTree, fileDetectorsData[t].Files)}

HostingWinners(technologies, context) ==
    {t \in technologies :
        /\ <<"r","e","p","o">> \in DOMAIN context
        /\ fileDetectorsData[t].HostingMatch # <<>>
        /\ Contains(context[<<"r","e","p","o">>], fileDetectorsData[t].HostingMatch)}

\* The technologies of a category that contend for it in the project and the
\* context the files detector ran with.
Contenders(category) == MatchedTechnologies(tree, category)

Winners(category) == HostingWinners(MatchedTechnologies(tree, category), ctxSeen["files"])

\* Technology configurations: every combination of a template (none, one
\* placeholder, two placeholders), a hosting_match and a fallback_url.
TechnologyConfigs ==
    {[DisplayName |-> <<"C","I">>, Category |-> <<"c","i">>, HostingMatch |-> h,
      Files |-> <<<<".","c","i",".","y","m","l">>>>, URLTemplate |-> u, FallbackURL |-> f] :
        h \in {<<>>, <<"g","i","t","h","u","b",".","c","o","m">>},
        u \in {<<>>, <<"{","r","e","p","o","}","/","a","c","t","i","o","n","s">>, <<"{","r","e","p","o","}","/","c","o","m","p","a","r","e","?","b","a","s","e","=","{","r","e","p","o","}">>},
        f \in {<<>>, <<"h","t","t","p","s",":","/","/","d","o","c","s",".","g","i","t","l","a","b",".","c","o","m","/","c","i">>}}

\* C1: when the scan is done every detector of both phases has been invoked,
\* whichever of them returned an error, and the final mapping is the merge
\* of the results of exactly the detectors that returned without error: it
\* has their keys and no other, each with a value one of them returned.
C1_FailureIsolated ==
    pc = "done" =>
        /\ calls = ExecutionOrder
        /\ DOMAIN allResults = UNION {DOMAIN returned[d].results : d \in Succeeded}
        /\ \A k \in DOMAIN allResults :
              \E d \in Succeeded :
                  k \in DOMAIN returned[d].results /\ allResults[k] = returned[d].results[k]

\* A finished scan in which the repository detector returned an error and
\* both other detectors contributed.
C1_Witness ==
    /\ pc = "done"
    /\ returned["git"].err
    /\ returned["services"].results # EmptyMap
    /\ returned["files"].results # EmptyMap

\* C2: a phase-2 detector is invoked only after every phase-1 detector, and
\* the context it is given holds exactly the results of the phase-1
\* detectors that returned without error; in particular it holds "repo"
\* with the value the repository detector produced.
C2_ContextAtPhase2 ==
    \A i \in 1..Len(calls) :
        calls[i] \in Range(phase2Detectors) =>
            /\ \A d \in Range(phase1Detectors) : \E j \in 1..(i - 1) : calls[j] = d
            /\ DOMAIN ctxSeen[calls[i]] =
                   UNION {DOMAIN returned[d].results : d \in Succeeded \cap Range(phase1Detectors)}
            /\ \A k \in DOMAIN ctxSeen[calls[i]] :
                   \E d \in Succeeded \cap Range(phase1Detectors) :
                       /\ k \in DOMAIN returned[d].results
                       /\ ctxSeen[calls[i]][k] = returned[d].results[k]
            /\ <<"r","e","p","o">> \in DOMAIN returned["git"].results =>
                   /\ <<"r","e","p","o">> \in DOMAIN ctxSeen[calls[i]]
                   /\ ctxSeen[calls[i]][<<"r","e","p","o">>] = returned["git"].results[<<"r","e","p","o">>]

\* The files detector has run with a context that holds the repository URL
\* and a service of the services detector.
C2_Witness ==
    /\ "files" \in DOMAIN ctxSeen
    /\ <<"r","e","p","o">> \in DOMAIN ctxSeen["files"]
    /\ <<"S","t","r","i","p","e">> \in DOMAIN ctxSeen["files"]

\* C3: no step of phase 2 changes ctx.Results: the results of a phase-2
\* detector go to the final mapping only.
C3_ContextFrozenInPhase2 == [][pc = "phase2" => ctxResults' = ctxResults]_vars

\* Phase 2 has added entries to the final mapping that the context, as it
\* was at the end of phase 1, does not hold.
C3_Witness ==
    /\ pc = "done"
    /\ ctxResults # EmptyMap
    /\ ctxResults = ctxSeen["files"]
    /\ DOMAIN returned["files"].results \ DOMAIN ctxResults # {}

\* C4: when two or more technologies of a category have matching files and
\* exactly one of them has a hosting_match contained in the published
\* "repo", the files detector emits that technology and no other technology
\* of the category.
C4_OnlyHostingWinnerEmitted ==
    "files" \in DOMAIN returned =>
        \A c \in Categories :
            (Cardinality(Contenders(c)) >= 2 /\ Cardinality(Winners(c)) = 1) =>
                \A t \in Contenders(c) :
                    t \in DOMAIN returned["files"].results <=> t \in Winners(c)

\* C5: when two or more technologies of a category have matching files and
\* none has a hosting_match contained in the published "repo" (or no "repo"
\* is published), the files detector emits an entry for the category whose
\* value is the fallback_url of a matched technology, or its id when it has
\* no fallback_url.
C5_UnresolvedCategoryFallsBack ==
    "files" \in DOMAIN returned =>
        \A c \in Categories :
            (Cardinality(Contenders(c)) >= 2 /\ Winners(c) = {}) =>
                \E t \in Contenders(c) :
                    /\ t \in DOMAIN returned["files"].results
                    /\ returned["files"].results[t] = FallbackOrID(fileDetectorsData[t], t)

\* C6: FilesDetector.Detect returns the same mapping in whatever order the
\* technologies of the catalog are ranged over, for the same project tree
\* and the same context.
C6_DetectDeterministic ==
    pc = "phase2" =>
        \A o \in TechnologyOrders :
            FilesDetector_Detect(o, fileDetectorsData, tree, ctxResults)
                = FilesDetector_Detect(SomeTechnologyOrder,
                                       fileDetectorsData, tree, ctxResults)

\* Phase 2 is about to run on a project in which both technologies of the
\* category "ci" have matching files, with a published repository URL.
C6_Witness ==
    /\ pc = "phase2"
    /\ <<"r","e","p","o">> \in DOMAIN ctxResults
    /\ Cardinality(MatchedTechnologies(tree, <<"c","i">>)) = 2

\* C7: for every technology configuration and every context, buildURL
\* returns (1) fallback_url, else the id, when no "repo" is published or
\* url_template is empty; (2) fallback_url, else the id, when hosting_match
\* is set and the published repo does not contain it; (3) otherwise
\* url_template with every {repo} replaced by the published repo.
C7_BuildURLCases ==
    \A config \in TechnologyConfigs \cup {fileDetectorsData[t] : t \in DOMAIN fileDetectorsData} :
        buildURL(config, <<"c","i","-","t","o","o","l">>, ctxResults) =
            IF <<"r","e","p","o">> \notin DOMAIN ctxResults \/ config.URLTemplate = <<>>
            THEN FallbackOrID(config, <<"c","i","-","t","o","o","l">>)
            ELSE IF /\ config.HostingMatch # <<>>
                    /\ ~Contains(ctxResults[<<"r","e","p","o">>], config.HostingMatch)
                 THEN FallbackOrID(config, <<"c","i","-","t","o","o","l">>)
                 ELSE ReplaceAll(config.URLTemplate, <<"{","r","e","p","o","}">>, ctxResults[<<"r","e","p","o">>])

\* The files detector has emitted, with a repository on gitlab.com, one
\* entry by each case: a template filled in, a fallback for a hosting that
\* does not match, and a fallback for a technology without a template.
C7_Witness ==
    /\ "files" \in DOMAIN returned
    /\ <<"r","e","p","o">> \in DOMAIN ctxSeen["files"]
    /\ <<"g","i","t","l","a","b","-","c","i">> \in DOMAIN returned["files"].results
    /\ returned["files"].results[<<"g","i","t","l","a","b","-","c","i">>] = <<"h","t","t","p","s",":","/","/","g","i","t","l","a","b",".","c","o","m","/","o","r","g","/","r","e","p","o","/","-","/","p","i","p","e","l","i","n","e","s">>
    /\ <<"g","i","t","h","u","b","-","a","c","t","i","o","n","s">> \in DOMAIN returned["files"].results
    /\ returned["files"].results[<<"g","i","t","h","u","b","-","a","c","t","i","o","n","s">>] = <<"g","i","t","h","u","b","-","a","c","t","i","o","n","s">>
    /\ <<"d","b","t">> \in DOMAIN returned["files"].results
    /\ returned["files"].results[<<"d","b","t">>] = <<"h","t","t","p","s",":","/","/","d","o","c","s",".","g","e","t","d","b","t",".","c","o","m">>

\* C8: when the repository detector contributes no "repo" (no repository,
\* no origin remote, or a failing git call), the context of phase 2 holds
\* no "repo" and every entry of the files detector has as value the
\* fallback_url of its technology, or its id when it has none.
C8_NoRepoMeansFallback ==
    ("files" \in DOMAIN returned /\ <<"r","e","p","o">> \notin DOMAIN returned["git"].results) =>
        /\ <<"r","e","p","o">> \notin DOMAIN ctxSeen["files"]
        /\ \A t \in DOMAIN returned["files"].results :
              returned["files"].results[t] = FallbackOrID(fileDetectorsData[t], t)

\* The git call failed in a repository without an origin, and the files
\* detector emitted a technology that has a url_template.
C8_Witness ==
    /\ "files" \in DOMAIN returned
    /\ returned["git"].err
    /\ <<"g","i","t","h","u","b","-","a","c","t","i","o","n","s">> \in DOMAIN returned["files"].results
    /\ <<"c","o","d","e","o","w","n","e","r","s">> \in DOMAIN returned["files"].results

\* C9: a scan whose catalog loads goes from phase 1 to phase 2 to done, in
\* that order and never backwards, and does reach done, the final mapping
\* then holding the results of all three detectors' invocations.
C9_PhasesInOrder ==
    /\ [][pc' # pc => <<pc, pc'>> \in {<<"start", "phase1">>, <<"start", "failed">>,
                                        <<"phase1", "phase2">>, <<"phase2", "done">>}]_vars
    /\ (pc = "phase1") ~> (pc = "done" /\ Len(calls) = Len(ExecutionOrder))

\* A scan that loaded its catalog and is done, every detector invoked once.
C9_Witness ==
    /\ pc = "done"
    /\ loadError = "none"
    /\ Len(calls) = Len(phase1Detectors) + Len(phase2Detectors)

\* The last detector in execution order that returned key k without error.
LastWriter(k) ==
    ExecutionOrder[CHOOSE i \in 1..Len(ExecutionOrder) :
        /\ ExecutionOrder[i] \in Succeeded
        /\ k \in DOMAIN returned[ExecutionOrder[i]].results
        /\ \A j \in (i + 1)..Len(ExecutionOrder) :
              ~(ExecutionOrder[j] \in Succeeded
                /\ k \in DOMAIN returned[ExecutionOrder[j]].results)]

\* C10: in the final mapping each key has the value returned for it by the
\* last detector in execution order that returned it without error.
C10_LastWriteWins ==
    pc = "done" =>
        \A k \in DOMAIN allResults :
            /\ \E d \in Succeeded : k \in DOMAIN returned[d].results
            /\ allResults[k] = returned[LastWriter(k)].results[k]

\* The services detector and the files detector both returned the key
\* "dbt", with different values.
C10_Witness ==
    /\ pc = "done"
    /\ <<"d","b","t">> \in DOMAIN returned["services"].results
    /\ <<"d","b","t">> \in DOMAIN returned["files"].results
    /\ returned["services"].results[<<"d","b","t">>] # returned["files"].results[<<"d","b","t">>]

---------------------------------------------------------------------------
(* The repository detector.                                                *)

\* The position of the first occurrence of a character a string contains.
FirstIndex(s, ch) ==
    CHOOSE i \in 1..Len(s) : s[i] = ch /\ \A k \in 1..(i - 1) : s[k] # ch

\* An SSH-style remote user@host:path: a user name and a host name without
\* separators, then a path.
SSHStyle(s) ==
    \E a, c \in 1..Len(s) :
        /\ 1 < a /\ a + 1 < c /\ c < Len(s)
        /\ s[a] = "@" /\ s[c] = ":"
        /\ \A k \in 1..(a - 1) : s[k] \notin {"@", ":", "/"}
        /\ \A k \in (a + 1)..(c - 1) : s[k] \notin {"@", ":", "/"}

\* The web address of a remote: https://host/path for user@host:path, the
\* remote without a trailing .git for http:// and https://, else the remote.
WebAddress(s) ==
    IF SSHStyle(s)
    THEN <<"h","t","t","p","s",":","/","/">> \o SubSeq(s, FirstIndex(s, "@") + 1, FirstIndex(s, ":") - 1)
         \o <<"/">> \o TrimSuffix(SubSeq(s, FirstIndex(s, ":") + 1, Len(s)), <<".","g","i","t">>)
    ELSE IF HasPrefix(s, <<"h","t","t","p","s",":","/","/">>) \/ HasPrefix(s, <<"h","t","t","p",":","/","/">>)
         THEN TrimSuffix(s, <<".","g","i","t">>)
         ELSE s

\* The repository detector has returned in a repository that has an origin.
RepoPublished ==
    /\ "git" \in DOMAIN returned
    /\ <<"r","e","p","o">> \in DOMAIN returned["git"].results

\* C11: the address published for an origin is https://host/org/repo for an
\* SSH-style origin user@host:org/repo[.git] of any user, the origin without
\* a trailing .git for an http:// or https:// origin, and the origin itself
\* for anything else.
C11_ConvertsEveryRemote ==
    RepoPublished => returned["git"].results[<<"r","e","p","o">>] = WebAddress(git.origin)

\* The part of a URL between "://" and the next "/".
Authority(url) ==
    LET rest == SubSeq(url, FirstIndex(url, ":") + 3, Len(url))
    IN  IF "/" \in Range(rest) THEN SubSeq(rest, 1, FirstIndex(rest, "/") - 1) ELSE rest

\* C12: the published "repo" value carries no credentials of the origin: a
\* published http(s) address has no userinfo before its host.
C12_NoCredentialsPublished ==
    (/\ RepoPublished
     /\ \/ HasPrefix(returned["git"].results[<<"r","e","p","o">>], <<"h","t","t","p","s",":","/","/">>)
        \/ HasPrefix(returned["git"].results[<<"r","e","p","o">>], <<"h","t","t","p",":","/","/">>))
    => "@" \notin Range(Authority(returned["git"].results[<<"r","e","p","o">>]))

\* C13: outside a repository, and in a repository without an origin remote,
\* the repository detector returns an empty result and no error.
C13_NoOriginIsNoError ==
    ("git" \in DOMAIN returned /\ (~git.isRepo \/ ~git.hasOrigin)) =>
        /\ ~returned["git"].err
        /\ returned["git"].results = EmptyMap

---------------------------------------------------------------------------
(* Languages, manifests and services.                                      *)

\* The patterns of all package managers of a language of the catalog.
LanguagePatterns(language) ==
    UNION { Range(stackData[language].PackageManagers[pm].Files) :
              pm \in DOMAIN stackData[language].PackageManagers }

\* The languages of the catalog with a pattern that matches the path,
\* relative to the project root, of some entry of the tree.
PresentLanguages(projectTree) ==
    { language \in DOMAIN stackData :
        \E pattern \in LanguagePatterns(language), e \in projectTree :
            Match(pattern, e.path) }

\* C14: whatever the order the catalog is ranged over, detectProjectLanguages
\* returns exactly the languages with a package-manager pattern that matches
\* under the project root, each of them once.
C14_LanguagesDetected ==
    "services" \in DOMAIN returned =>
        \A order \in LanguageOrders :
            /\ Range(detectProjectLanguages(order, tree, stackData)) = PresentLanguages(tree)
            /\ Len(detectProjectLanguages(order, tree, stackData))
                   = Cardinality(PresentLanguages(tree))

\* The services detector ran on a project of three languages, one of them
\* present only through a pattern with a wildcard, below a subdirectory.
C14_Witness ==
    /\ "services" \in DOMAIN returned
    /\ ~StatOK(tree, <<"r","e","q","u","i","r","e","m","e","n","t","s",".","t","x","t">>)
    /\ StatOK(tree, <<"r","e","q","u","i","r","e","m","e","n","t","s","/","d","e","v",".","t","x","t">>)
    /\ PresentLanguages(tree) = DOMAIN stackData

\* Every package name of every package list of the service catalog.
CatalogPackages ==
    UNION { UNION { Range(servicesData[s].Stacks[language]) :
                      language \in DOMAIN servicesData[s].Stacks } :
              s \in DOMAIN servicesData }

\* C15: for a manifest of the project in any of the formats, and any package
\* name of the catalog, scoped names included, isPackageInFile answers true
\* when the manifest declares the package and false when it does not.
C15_DeclaredPackagesFound ==
    "services" \in DOMAIN returned =>
        \A fx \in ManifestFixtures :
            fx.file \in tree =>
                \A language \in PresentLanguages({fx.file}), P \in CatalogPackages :
                    isPackageInFile(fx.file.content, Base(fx.file.path), P, language)
                        = (P \in fx.declares)

\* The manifests of the project in a format without a parser of its own:
\* the files a pattern of the catalog matches and isPackageInFile hands to
\* the generic search.
GenericManifests(projectTree) ==
    { f \in projectTree :
        /\ ~f.isDir
        /\ PresentLanguages({f}) # {}
        /\ Base(f.path) \notin {<<"p","a","c","k","a","g","e",".","j","s","o","n">>, <<"G","e","m","f","i","l","e">>, <<"y","a","r","n",".","l","o","c","k">>}
        /\ ~HasSuffix(Base(f.path), <<"r","e","q","u","i","r","e","m","e","n","t","s",".","t","x","t">>)
        /\ ~HasSuffix(Base(f.path), <<".","g","e","m","s","p","e","c">>) }

\* The punctuation stripped from both ends of a token.
Punctuation == {"\"", "'", ",", ":", ";", "(", ")", "[", "]", "{", "}"}

\* The name stands in the content as a token: at positions a..b, with only
\* punctuation between it and the white space (or the end of the content)
\* on either side.
TokenAt(content, name, a, b) ==
    /\ SubSeq(content, a, b) = name
    /\ name[1] \notin Punctuation /\ name[Len(name)] \notin Punctuation
    /\ \E i \in 1..a :
          /\ i = 1 \/ IsSpace(content[i - 1])
          /\ \A k \in i..(a - 1) : content[k] \in Punctuation
    /\ \E j \in b..Len(content) :
          /\ j = Len(content) \/ IsSpace(content[j + 1])
          /\ \A k \in (b + 1)..j : content[k] \in Punctuation

\* C16: in a manifest of unknown format a package is reported iff some
\* token between white space, stripped of surrounding punctuation, is the
\* package name; a token that only contains the name does not count.
C16_ExactTokenMatch ==
    "services" \in DOMAIN returned =>
        \A f \in GenericManifests(tree), P \in CatalogPackages :
            isPackageInGenericFile(f.content, P)
                = \E a \in 1..(Len(f.content) - Len(P) + 1) :
                      TokenAt(f.content, P, a, a + Len(P) - 1)

\* The services detector ran on a project whose manifest of unknown format
\* has a package name inside a longer token, and the package is not reported.
C16_Witness ==
    /\ "services" \in DOMAIN returned
    /\ \E f \in GenericManifests(tree) :
          /\ Contains(f.content, <<"s","t","r","i","p","e">>)
          /\ ~isPackageInGenericFile(f.content, <<"s","t","r","i","p","e">>)

\* The manifests of a language: the files of the project that a pattern of
\* one of its package managers matches.
Manifests(projectTree, language) ==
    { f \in projectTree :
        ~f.isDir /\ \E pattern \in LanguagePatterns(language) : Match(pattern, f.path) }

\* The packages of the service's package list for the language that the
\* manifest is found to declare (none when the service has no such list or
\* the manifest cannot be read).
ConfirmedIn(f, service, language) ==
    IF f.readable /\ language \in DOMAIN servicesData[service].Stacks
    THEN { P \in Range(servicesData[service].Stacks[language]) :
             isPackageInFile(f.content, f.path, P, language) }
    ELSE {}

\* The packages of the service confirmed in some manifest of the language.
Confirmed(projectTree, service, language) ==
    UNION { ConfirmedIn(f, service, language) : f \in Manifests(projectTree, language) }

\* The names of the services of a sequence of ServiceDetection records.
ServiceNames(detections) == { detections[i].Name : i \in 1..Len(detections) }

\* The ServiceDetection records of a language in the project results.
DetectionsOf(results, language) ==
    UNION { Range(results[i].Services) :
              i \in {n \in 1..Len(results) : results[n].Language = language} }

\* analyzeProjectDependencies on the project, for the languages detected.
ProjectDetections(projectTree) ==
    analyzeProjectDependencies(projectTree,
        detectProjectLanguages(CHOOSE order \in LanguageOrders : TRUE, projectTree, stackData),
        stackData, servicesData)

\* C17: analyzeFile reports a service for a manifest of a language iff the
\* manifest is found to declare a package of the service's list for the
\* language, and analyzeProjectDependencies reports it for the language iff
\* some manifest of the language does; a service without a confirmed
\* package, or without a list for the language, is not reported.
C17_ReportedIffConfirmed ==
    "services" \in DOMAIN returned =>
        \A language \in PresentLanguages(tree), service \in DOMAIN servicesData :
            /\ \A f \in Manifests(tree, language) :
                  (service \in ServiceNames(analyzeFile(f, language, servicesData)))
                      = (ConfirmedIn(f, service, language) # {})
            /\ (\E d \in DetectionsOf(ProjectDetections(tree), language) : d.Name = service)
                  = (Confirmed(tree, service, language) # {})

\* The services detector ran on a project of two languages whose manifests
\* confirm a service for one language and not for the other.
C17_Witness ==
    /\ "services" \in DOMAIN returned
    /\ {<<"r","u","b","y">>, <<"p","y","t","h","o","n">>} \subseteq PresentLanguages(tree)
    /\ Confirmed(tree, <<"s","t","r","i","p","e">>, <<"r","u","b","y">>) # {}
    /\ Confirmed(tree, <<"s","t","r","i","p","e">>, <<"p","y","t","h","o","n">>) = {}

\* The ServiceDetection records of all languages of the project results,
\* one after the other.
RECURSIVE AllDetections(_)
AllDetections(results) ==
    IF results = <<>> THEN <<>>
    ELSE Head(results).Services \o AllDetections(Tail(results))

\* No two records of the sequence are of the same service.
OnePerService(detections) ==
    \A a, b \in 1..Len(detections) : detections[a].Name = detections[b].Name => a = b

\* The package names of a ServiceDetection.
PackageNames(detection) ==
    { detection.Packages[i].Name : i \in 1..Len(detection.Packages) }

OnePerLanguage(result, projectTree) ==
    /\ OnePerService(result.Services)
    /\ \A d \in Range(result.Services) :
          /\ d.Language = result.Language
          /\ PackageNames(d) = Confirmed(projectTree, d.Name, result.Language)
          /\ Len(d.Packages) = Cardinality(PackageNames(d))

FileDetections(projectTree) ==
    UNION { UNION { Range(analyzeFile(f, language, servicesData)) :
                      f \in Manifests(projectTree, language) } :
              language \in PresentLanguages(projectTree) }

\* The record servicesMap holds for a service after the record `existing`
\* was entered and the record `service` merged into it.
Merged(existing, service) ==
    MergeService(Entry(existing.Name, existing), service)[existing.Name]

\* C19: the merge of two Service Detection records of one service is a set
\* union on package names: merging a record with itself leaves the names
\* unchanged, merging either way round gives the same names, the names of
\* both records, and no name occurs twice.
C19_MergeIsUnion ==
    "services" \in DOMAIN returned =>
        \A a, b \in FileDetections(tree) :
            (a.Name = b.Name /\ a.Language = b.Language) =>
                /\ PackageNames(Merged(a, a)) = PackageNames(a)
                /\ PackageNames(Merged(a, b)) = PackageNames(a) \cup PackageNames(b)
                /\ PackageNames(Merged(a, b)) = PackageNames(Merged(b, a))
                /\ Len(Merged(a, b).Packages) = Cardinality(PackageNames(Merged(a, b)))

\* The services detector ran on a project where two manifests of a language
\* gave records of one service with different packages.
C19_Witness ==
    /\ "services" \in DOMAIN returned
    /\ \E a, b \in FileDetections(tree) :
          /\ a.Name = b.Name /\ a.Language = b.Language
          /\ PackageNames(a) # PackageNames(b)

\* The services of the catalog with a package confirmed in a manifest of
\* some language of the project.
ConfirmedServices(projectTree) ==
    { service \in DOMAIN servicesData :
        \E language \in PresentLanguages(projectTree) :
            Confirmed(projectTree, service, language) # {} }

---------------------------------------------------------------------------
(* Degraded inputs: no language, unreadable manifests, a broken catalog.    *)

\* C21: on a project where no language pattern matches, the services
\* detector returns an empty map and no error without calling the dependency
\* analysis, and the final mapping has every entry the repository detector
\* and the files detector returned.
C21_NoLanguageNoAnalysis ==
    ("services" \in DOMAIN returned /\ PresentLanguages(tree) = {}) =>
        /\ returned["services"].results = EmptyMap
        /\ ~returned["services"].err
        /\ ~returned["services"].analyzed
        /\ pc = "done" =>
              \A d \in Succeeded \ {"services"} :
                  \A k \in DOMAIN returned[d].results :
                      /\ k \in DOMAIN allResults
                      /\ allResults[k] = returned[d].results[k]

\* A scan ended on a project without a language, with the repository and a
\* technology in the final mapping.
C21_Witness ==
    /\ pc = "done"
    /\ PresentLanguages(tree) = {}
    /\ <<"r","e","p","o">> \in DOMAIN allResults
    /\ DOMAIN returned["files"].results # {}
    /\ DOMAIN returned["files"].results \subseteq DOMAIN allResults

\* C22: a manifest that cannot be read gives no finding and no error, and
\* the services confirmed in the other manifests of the language are still
\* reported, with the packages confirmed there.
C22_UnreadableManifestSkipped ==
    "services" \in DOMAIN returned =>
        \A language \in PresentLanguages(tree) :
            \A f \in {m \in Manifests(tree, language) : ~m.readable} :
                /\ analyzeFile(f, language, servicesData) = <<>>
                /\ ~returned["services"].err
                /\ \A g \in Manifests(tree, language), service \in DOMAIN servicesData :
                      ConfirmedIn(g, service, language) # {} =>
                          \E d \in DetectionsOf(ProjectDetections(tree), language) :
                              /\ d.Name = service
                              /\ ConfirmedIn(g, service, language) \subseteq PackageNames(d)

\* The services detector ran on a project with a manifest that cannot be
\* read and one that can, and reported the service of the latter.
C22_Witness ==
    /\ "services" \in DOMAIN returned
    /\ \E f, g \in Manifests(tree, <<"r","u","b","y">>) :
          /\ ~f.readable
          /\ ConfirmedIn(g, <<"s","t","r","i","p","e">>, <<"r","u","b","y">>) # {}
    /\ <<"S","t","r","i","p","e">> \in DOMAIN returned["services"].results

\* C23: when a bundled catalog file cannot be loaded (the language patterns,
\* a service definition, the file-detector data), the scan stops before any
\* detector runs.
C23_LoadFailureStopsScan ==
    loadError # "none" => (calls = <<>> /\ pc \in {"start", "failed"})

\* C29: the repository detector publishes the origin of the repository that
\* contains the scanned directory, and nothing when that directory is not
\* under version control, whatever the working directory is.
C29_RepoOfScannedDirectory ==
    "git" \in DOMAIN returned =>
        returned["git"].results = GitRepositoryDetector_Detect(projectGit).results

---------------------------------------------------------------------------
(* The manifest parsers and the two pattern tests.                          *)

\* C26: in a requirements file a package is reported iff some line that is
\* neither blank nor a comment has the package name as its first token, the
\* line split on = > < ! ~ and on white space, tabs included.
C26_FirstTokenOfRequirement ==
    "services" \in DOMAIN returned =>
        \A f \in {m \in tree : m.readable /\ HasSuffix(Base(m.path), <<"r","e","q","u","i","r","e","m","e","n","t","s",".","t","x","t">>)},
           P \in CatalogPackages :
            isPackageInRequirements(f.content, P)
                = \E i \in 1..Len(Lines(f.content)) :
                      /\ TrimSpace(Lines(f.content)[i]) # <<>>
                      /\ ~HasPrefix(TrimSpace(Lines(f.content)[i]), <<"#">>)
                      /\ <<P>> = SubSeq(FieldsSet(TrimSpace(Lines(f.content)[i]),
                                                  {"=", ">", "<", "!", "~", " ", "\t"}), 1, 1)

\* The document is an object with a member dependencies or devDependencies
\* that is an object with the key P.
DeclaredInDocument(doc, P) ==
    /\ doc.t = "obj"
    /\ \E i \in 1..Len(doc.members) :
          /\ \/ EqualFold(doc.members[i][1], <<"d","e","p","e","n","d","e","n","c","i","e","s">>)
             \/ EqualFold(doc.members[i][1], <<"d","e","v","D","e","p","e","n","d","e","n","c","i","e","s">>)
          /\ doc.members[i][2].t = "obj"
          /\ \E j \in 1..Len(doc.members[i][2].members) :
                doc.members[i][2].members[j][1] = P

\* The package.json manifests of the project.
PackageJSONs == {m \in tree : m.readable /\ Base(m.path) = <<"p","a","c","k","a","g","e",".","j","s","o","n">>}

\* C27 as stated: a package is reported iff it is a key of dependencies or
\* devDependencies when the content is valid JSON, and iff the content has
\* the name in double quotes when it is not.
C27_ParsedOrQuoted ==
    "services" \in DOMAIN returned =>
        \A f \in PackageJSONs, P \in CatalogPackages :
            isPackageInPackageJson(f.content, P)
                = IF ParseJSON(f.content).ok
                  THEN DeclaredInDocument(ParseJSON(f.content).v, P)
                  ELSE Contains(f.content, <<"\"">> \o P \o <<"\"">>)

\* C27, amended: a package is reported iff it is a key of dependencies or
\* devDependencies when json.Unmarshal accepts the content (valid JSON, an
\* object or null, whose dependencies and devDependencies are objects or
\* null), and iff the content has the name in double quotes when it does
\* not; no content makes the search fail.
C27_UnmarshalledOrQuoted ==
    "services" \in DOMAIN returned =>
        \A f \in PackageJSONs, P \in CatalogPackages :
            /\ isPackageInPackageJson(f.content, P) \in BOOLEAN
            /\ isPackageInPackageJson(f.content, P)
                  = IF /\ ParseJSON(f.content).ok
                       /\ ParseJSON(f.content).v.t \in {"obj", "null"}
                       /\ \A i \in 1..Len(ParseJSON(f.content).v.members) :
                             (\/ EqualFold(ParseJSON(f.content).v.members[i][1], <<"d","e","p","e","n","d","e","n","c","i","e","s">>)
                              \/ EqualFold(ParseJSON(f.content).v.members[i][1], <<"d","e","v","D","e","p","e","n","d","e","n","c","i","e","s">>))
                             => ParseJSON(f.content).v.members[i][2].t \in {"obj", "null"}
                    THEN DeclaredInDocument(ParseJSON(f.content).v, P)
                    ELSE Contains(f.content, <<"\"">> \o P \o <<"\"">>)

\* The services detector ran on a project whose package.json is valid JSON
\* that json.Unmarshal rejects, and the package was found by its quoted name.
C27_Witness ==
    /\ "services" \in DOMAIN returned
    /\ \E f \in PackageJSONs :
          /\ ParseJSON(f.content).ok
          /\ UnmarshalFails(ParseJSON(f.content))
          /\ isPackageInPackageJson(f.content, <<"s","t","r","i","p","e">>)

\* The file patterns of the two catalogs.
CatalogPatterns ==
    UNION { UNION { Range(stackData[l].PackageManagers[pm].Files)
                    : pm \in DOMAIN stackData[l].PackageManagers }
            : l \in DOMAIN stackData }
    \cup UNION { Range(fileDetectorsData[t].Files) : t \in DOMAIN fileDetectorsData }

\* C28: once the technologies have been looked for, the pattern test of the
\* files detector and the pattern test of the language detector give the
\* same answer for every catalog pattern on the project's tree.
C28_SamePatternTest ==
    "files" \in DOMAIN returned =>
        \A pattern \in CatalogPatterns :
            FilesDetector_hasMatchingFile(tree, pattern) = hasMatchingFiles(tree, pattern)

---------------------------------------------------------------------------
(* The configuration file.                                                 *)

\* C24: whenever an existing configuration file is updated, every section
\* other than the project's (the one named projectName or holding the
\* project's repository URL) reads back with the same keys and values, and
\* every entry the project's section had reads back with the same value.
C24_UpdateKeepsEntries ==
    \A c \in 1..Len(written) :
        written[c].before.exists =>
            \A r \in DOMAIN Unmarshal(written[c].before.content) :
                /\ r \in DOMAIN Unmarshal(written[c].after.content)
                /\ \A k \in DOMAIN Unmarshal(written[c].before.content)[r] :
                      /\ k \in DOMAIN Unmarshal(written[c].after.content)[r]
                      /\ Unmarshal(written[c].after.content)[r][k]
                            = Unmarshal(written[c].before.content)[r][k]
                /\ (/\ r # projectName
                    /\ \A f \in {<<"r","e","p","o">>, <<"R","e","p","o","s","i","t","o","r","y">>} \cap DOMAIN Unmarshal(written[c].before.content)[r] :
                          <<"r","e","p","o">> \in DOMAIN allResults
                              => Unmarshal(written[c].before.content)[r][f] # allResults[<<"r","e","p","o">>])
                   => Unmarshal(written[c].after.content)[r]
                         = Unmarshal(written[c].before.content)[r]

\* C25: when there was no configuration file, the file written reads back,
\* under the project's root key, as exactly one entry per result: its
\* display name with its value.
C25_NewFileReadsBack ==
    (written # <<>> /\ ~written[1].before.exists) =>
        /\ projectName \in DOMAIN Unmarshal(written[1].after.content)
        /\ Cardinality(DOMAIN Unmarshal(written[1].after.content)[projectName])
              = Cardinality(DOMAIN allResults)
        /\ \A key \in DOMAIN allResults :
              /\ getTechnologyDisplayName(key)
                    \in DOMAIN Unmarshal(written[1].after.content)[projectName]
              /\ Unmarshal(written[1].after.content)[projectName][getTechnologyDisplayName(key)]
                    = allResults[key]

\* C30: the file after a second call with the same results is the file
\* after the first call.
C30_SecondCallChangesNothing ==
    Len(written) >= 2 => written[2].after = written[1].after

====
